---- MODULE Spec2Model ----
(***************************************************************************)
(* Model of the resilient external-API access layer of tubesort:           *)
(*   - the server's YouTube key rotation (src/src/routes/api.js),          *)
(*   - the client's quota-retrying loaders (services/youtube.js),          *)
(*   - the Gemini batch categorizer (services/gemini.js),                  *)
(*   - the MongoDB-backed TTL cache routes (src/src/routes/api.js).        *)
(* Each subsystem has its own specification over the shared variables.     *)
(***************************************************************************)
EXTENDS Integers, Sequences, FiniteSets, TLC

\* ------------------------------------------------------------------------
\* Bounds of the model
\* ------------------------------------------------------------------------
NReq == 2
\* connection attempts the model lets the process make
MaxConnects == 3
MaxRotations == 5
MaxTime == 24
TickHours == 24
MaxChunks == 4
RichChunks == 2
MaxOps == 2
MaxInFlight == 1
MaxWriters == 2

\* ------------------------------------------------------------------------
\* Program constants
\* ------------------------------------------------------------------------
\* getYouTubeApiKeys reads five environment slots, YOUTUBE_API_KEY_1..5
KeySlots == 5
\* 24 * 60 * 60 * 1000 ms, in hours
QuotaResetHours == 24
\* const maxAttempts = 3 of cacheData
CacheDataMaxAttempts == 3
\* const maxAttempts = 3 of router.post('/cache')
PutMaxAttempts == 3
\* const BATCH_SIZE = 200, const MAX_PARALLEL = 3 of categorizeVideos
BATCH_SIZE == 200
MAX_PARALLEL == 3

None == "none"
\* no API key (the keys are numbered from 1)
NoApiKey == 0

VARIABLES
    \* ---- server key rotation (api.js) ----
    numKeys,            \* getYouTubeApiKeys().length, fixed by the environment
    keyRotationLock,    \* let keyRotationLock
    currentKeyIndex,    \* keyUsageTracking.youtube.currentKeyIndex
    usageCount,         \* keyUsageTracking.youtube.usageCount   (index -> count)
    quotaResets,        \* keyUsageTracking.youtube.quotaResets  (index -> time)
    now,                \* wall clock, in hours
    rpc,                \* position of each POST /rotate-key request
    rwaited,            \* the request's wait loop ran at least once
    rkey,               \* value returned by rotateYoutubeKey to the request
    rresp,              \* response sent for the request
    rinflight,          \* requests that were pending when this one arrived
    rcalls,             \* number of rotate requests received so far
    \* ---- client cache writer cacheData (services/cache.js) ----
    cdState,            \* "idle", "posting", "backoff", "ok", "failed"
    cdAttempts,         \* let attempts
    cdLogged,           \* a caller's .catch logged the failed background write
    cdLastError,        \* let lastError: which attempt failed, and how
    cdReq,              \* the collection and the validatedData of the call
    cdDelay,            \* ms of the setTimeout cacheData waits for, 0 without one
    \* ---- client loaders (services/youtube.js) ----
    lop,                \* which loader runs
    lpc,                \* position of the loader
    currentApiKeys,     \* let currentApiKeys
    exhausted,          \* keys for which YouTube answers "quota exceeded"
    lattempts,          \* invocations of the loader, recursive ones included
    lkeyUsed,           \* key sent with the last upstream call
    ldelivered,         \* the result was handed to the page
    lerror,             \* why the loader rejected
    llookup,            \* how the last POST /api/cache/get of the loader went
    \* ---- categorizeVideos (services/gemini.js) ----
    nVideos,            \* globalState.videos.length
    titling,            \* how the titles of globalState.videos repeat
    geminiKey,          \* getGeminiApiKey() returns a key
    bpc,                \* position of categorizeVideos
    batchPromises,      \* const batchPromises (indexes of the wave's chunks)
    chunk,              \* per chunk call: its promise and how it settled
    bresult,            \* per chunk call: the batchCategories it returned
    allCategories,      \* let allCategories
    bdisplayed,         \* what displayCategories was called with
    berror,             \* what the catch block of categorizeVideos caught
    bcause,             \* the chunk whose rejection Promise.all reported
    bkeys,              \* per chunk call: Object.keys(batchCategories), in order
    allKeys,            \* Object.keys(allCategories), in order
    bsettled,           \* log: the chunk calls of the wave, in the order they settled
    \* ---- cache routes (api.js) ----
    store,              \* the MongoDB collections: collection -> its documents, in order
    ops,                \* number of cache requests received so far
    dbReady,            \* let db is set: the process has connected to MongoDB
    cresp,              \* the response a cache route sent since the last request came
    ppc,                \* position of each POST /cache request
    preq,               \* its body: collection, key, data
    pdoc,               \* its cacheDoc
    pattempts,          \* its let attempts
    pdelay,             \* ms of the setTimeout it waits for, 0 without one
    gpc,                \* position of the cache read request
    greq,               \* its route, collection and key
    gnow,               \* its const now
    gexpired,           \* its findOne met a document with expiresAt < now
    gexpect,            \* payload last written to its key when findOne ran
    lastWritten,        \* collection -> key -> payload of the last stored put
    spc,                \* position of the DELETE /cache/expired request
    snow,               \* the new Date() of its deleteMany filters
    spending,           \* collections whose deleteMany has not run yet
    sdeleted,           \* deletedCount per collection
    \* ---- read routes of the key pool (api.js) ----
    qresp,              \* what GET /config or GET /key-usage sent last
    \* ---- GET /resolve-handle (api.js) ----
    hpc,                \* per request: its position and that of its https.get
    dataSize,           \* per request: let dataSize, in MB
    hsent,              \* per request: the statuses res was asked to send, in order
    hdestroyed,         \* per request: request.destroy() was called
    \* ---- connectToDatabase (api.js) ----
    client,             \* let client is set
    isConnecting,       \* let isConnecting
    connectionPromise,  \* let connectionPromise: the attempt it belongs to, 0 for null
    connAttempts,       \* per attempt made so far: where it stands
    epc,                \* per request: position in ensureConnection
    ewait               \* per request: the attempt whose promise it awaits

rotVars == <<numKeys, keyRotationLock, currentKeyIndex, usageCount, quotaResets,
             now, rpc, rwaited, rkey, rresp, rinflight, rcalls>>

cdVars == <<cdState, cdAttempts, cdLogged, cdLastError, cdReq, cdDelay>>

loadVars == <<lop, lpc, currentApiKeys, exhausted, lattempts, lkeyUsed,
              ldelivered, lerror, llookup>>

batchVars == <<nVideos, titling, geminiKey, bpc, batchPromises, chunk, bresult,
               allCategories, bdisplayed, berror, bcause, bkeys, allKeys,
               bsettled>>

putVars == <<ppc, preq, pdoc, pattempts, pdelay>>

getVars == <<gpc, greq, gnow, gexpired, gexpect>>

sweepVars == <<spc, snow, spending, sdeleted>>

readVars == <<qresp>>

cacheVars == <<store, ops, dbReady, cresp, lastWritten, putVars, getVars, sweepVars,
               readVars>>

handleVars == <<hpc, dataSize, hsent, hdestroyed>>

connVars == <<client, isConnecting, connectionPromise, connAttempts, epc, ewait>>

srvVars == <<handleVars, connVars>>

vars == <<rotVars, cdVars, loadVars, batchVars, cacheVars, srvVars>>

\* what the server's rotation steps leave alone
notRot == <<cdVars, loadVars, batchVars, cacheVars, srvVars>>

Reqs == 1..NReq

\* ------------------------------------------------------------------------
\* Key rotation manager (server)
\* ------------------------------------------------------------------------
\* getYouTubeApiKeys(): the configured keys, in slot order; key i is "i+1"
YoutubeApiKeys(n) == [i \in 1..n |-> i]

\* youtubeApiKeys[index] for a 0-based index; undefined past the end
KeyAt(n, index) ==
    IF index + 1 \in 1..n THEN YoutubeApiKeys(n)[index + 1] ELSE NoApiKey

NoModulo(i, n) == i

\* i % youtubeApiKeys.length
Modulo(i, n) == i % n

AdvanceIndexStuck(index, n) == index

\* (currentKeyIndex + 1) % youtubeApiKeys.length
AdvanceIndex(index, n) == Modulo(index + 1, n)

RECURSIVE FilterNot(_, _)
\* youtubeApiKeys.filter(k => k !== key)
FilterNot(keys, key) ==
    IF keys = <<>> THEN <<>>
    ELSE IF Head(keys) = key THEN FilterNot(Tail(keys), key)
         ELSE <<Head(keys)>> \o FilterNot(Tail(keys), key)

\* [key, ...youtubeApiKeys.filter(k => k !== key)]
KeysAsConfigured(n, key) == YoutubeApiKeys(n)

KeysHeadedBy(n, key) == <<key>> \o FilterNot(YoutubeApiKeys(n), key)

RotPending == {"queued", "cs", "rotated", "threw"}

\* initializeKeyTracking(): every configured index gets usage 0 and reset = now
InitKeyTracking(keyCounts) ==
    /\ numKeys \in keyCounts
    /\ keyRotationLock = FALSE
    /\ currentKeyIndex = 0
    /\ usageCount = [i \in 0..(numKeys - 1) |-> 0]
    /\ quotaResets = [i \in 0..(numKeys - 1) |-> 0]
    /\ now = 0
    /\ rpc = [r \in Reqs |-> "idle"]
    /\ rwaited = [r \in Reqs |-> FALSE]
    /\ rkey = [r \in Reqs |-> NoApiKey]
    /\ rresp = [r \in Reqs |-> [status |-> 0]]
    /\ rinflight = [r \in Reqs |-> {}]
    /\ rcalls = 0

\* let lastError = null
NoError == [attempt |-> 0, kind |-> "none", status |-> 0]
NoWrite == [collection |-> "", data |-> [absent |-> TRUE]]

\* cacheData has not been called
InitCacheData ==
    /\ cdState = "idle"
    /\ cdAttempts = 0
    /\ cdLogged = FALSE
    /\ cdLastError = NoError
    /\ cdReq = NoWrite
    /\ cdDelay = 0

\* no loader has been started
\* no GET /resolve-handle has come, and the module has just been loaded:
\* client and db undefined, isConnecting false, connectionPromise null
InitIdleServer ==
    /\ hpc = [r \in Reqs |-> "idle"]
    /\ dataSize = [r \in Reqs |-> 0]
    /\ hsent = [r \in Reqs |-> <<>>]
    /\ hdestroyed = [r \in Reqs |-> FALSE]
    /\ client = FALSE
    /\ isConnecting = FALSE
    /\ connectionPromise = 0
    /\ connAttempts = <<>>
    /\ epc = [r \in Reqs |-> "idle"]
    /\ ewait = [r \in Reqs |-> 0]

InitNoLoader ==
    /\ lop = None
    /\ lpc = "idle"
    /\ currentApiKeys = <<>>
    /\ exhausted = {}
    /\ lattempts = 0
    /\ lkeyUsed = NoApiKey
    /\ ldelivered = FALSE
    /\ lerror = None
    /\ llookup = None

\* the categorizer is not in use
InitNoBatch ==
    /\ nVideos = 0
    /\ titling = None
    /\ geminiKey = FALSE
    /\ bpc = "idle"
    /\ batchPromises = <<>>
    /\ chunk = <<>>
    /\ bresult = <<>>
    /\ allCategories = <<>>
    /\ bdisplayed = None
    /\ berror = None
    /\ bcause = None
    /\ bkeys = <<>>
    /\ allKeys = <<>>
    /\ bsettled = <<>>

\* DB_CONFIG.collections
Collections == {"channels", "videos", "categories", "playlists"}

\* the keys the requests of the model carry
Keys == {1}
\* a POST /cache request being handled occupies one of these
Puts == 1..MaxWriters

\* no document: what findOne yields for a key that matches nothing
NoDoc == [absent |-> TRUE]

\* a request body or query without that member
NoKey == 0
NoData == [absent |-> TRUE]

NoPut == [collection |-> "", key |-> NoKey, data |-> NoData]
NoGet == [route |-> "", collection |-> "", key |-> NoKey]

NoResp == [route |-> "", status |-> 0]

\* The cache routes have not been called: the collections are empty and no
\* request is in progress.
InitNoCache ==
    /\ store = [c \in Collections |-> <<>>]
    /\ ops = 0
    /\ dbReady = FALSE
    /\ cresp = NoResp
    /\ lastWritten = [c \in Collections |-> [k \in Keys |-> NoDoc]]
    /\ ppc = [p \in Puts |-> "idle"]
    /\ preq = [p \in Puts |-> NoPut]
    /\ pdoc = [p \in Puts |-> NoDoc]
    /\ pattempts = [p \in Puts |-> 0]
    /\ pdelay = [p \in Puts |-> 0]
    /\ gpc = "idle"
    /\ greq = NoGet
    /\ gnow = 0
    /\ gexpired = FALSE
    /\ gexpect = NoDoc
    /\ spc = "idle"
    /\ snow = 0
    /\ spending = {}
    /\ sdeleted = [c \in Collections |-> 0]
    /\ qresp = NoResp

InitRotate ==
    /\ InitKeyTracking(0..KeySlots)
    /\ InitCacheData
    /\ InitIdleServer
    /\ InitNoLoader
    /\ InitNoBatch
    /\ InitNoCache

\* A POST /rotate-key request reaches the server: its handler is about to
\* call rotateYoutubeKey (the rotation variables only)
RotateArrived(r) ==
    /\ rpc[r] \in {"idle", "done"}
    /\ rcalls < MaxRotations
    /\ rcalls' = rcalls + 1
    /\ rpc' = [rpc EXCEPT ![r] = "queued"]
    /\ rwaited' = [rwaited EXCEPT ![r] = FALSE]
    /\ rkey' = [rkey EXCEPT ![r] = NoApiKey]
    /\ rresp' = [rresp EXCEPT ![r] = [status |-> 0]]
    /\ rinflight' = [q \in Reqs |->
                        IF q = r THEN {p \in Reqs \ {r} : rpc[p] \in RotPending}
                        ELSE rinflight[q] \ {r}]
    /\ UNCHANGED <<numKeys, keyRotationLock, currentKeyIndex, usageCount,
                   quotaResets, now>>

\* a POST /rotate-key request sent by some browser
RotateArrive(r) ==
    /\ RotateArrived(r)
    /\ UNCHANGED notRot

\* while (keyRotationLock) await sleep(10)
RotateSpin(r) ==
    /\ rpc[r] = "queued"
    /\ keyRotationLock
    /\ rwaited' = [rwaited EXCEPT ![r] = TRUE]
    /\ UNCHANGED <<numKeys, keyRotationLock, currentKeyIndex, usageCount,
                   quotaResets, now, rpc, rkey, rresp, rinflight, rcalls>>
    /\ UNCHANGED notRot

RotateAcquireUnlocked(r) ==
    /\ rpc[r] = "queued"
    /\ keyRotationLock' = TRUE
    /\ rpc' = [rpc EXCEPT ![r] = "cs"]
    /\ UNCHANGED <<numKeys, currentKeyIndex, usageCount, quotaResets, now,
                   rwaited, rkey, rresp, rinflight, rcalls>>
    /\ UNCHANGED notRot

\* the loop exits; keyRotationLock = true
RotateAcquire(r) ==
    /\ rpc[r] = "queued"
    /\ ~keyRotationLock
    /\ keyRotationLock' = TRUE
    /\ rpc' = [rpc EXCEPT ![r] = "cs"]
    /\ UNCHANGED <<numKeys, currentKeyIndex, usageCount, quotaResets, now,
                   rwaited, rkey, rresp, rinflight, rcalls>>
    /\ UNCHANGED notRot

\* the try block: throw on an empty pool, else advance, reset bookkeeping
\* of the new index when 24 hours have passed, and return the new key
RotateBody(r) ==
    /\ rpc[r] = "cs"
    /\ IF numKeys = 0
       THEN /\ rpc' = [rpc EXCEPT ![r] = "threw"]
            /\ UNCHANGED <<currentKeyIndex, usageCount, quotaResets, rkey>>
       ELSE LET idx == AdvanceIndex(currentKeyIndex, numKeys)
                due == /\ idx \in DOMAIN quotaResets
                       /\ (now - quotaResets[idx]) >= QuotaResetHours
            IN /\ currentKeyIndex' = idx
               /\ usageCount' = IF due THEN [usageCount EXCEPT ![idx] = 0]
                                ELSE usageCount
               /\ quotaResets' = IF due THEN [quotaResets EXCEPT ![idx] = now]
                                 ELSE quotaResets
               /\ rkey' = [rkey EXCEPT ![r] = KeyAt(numKeys, idx)]
               /\ rpc' = [rpc EXCEPT ![r] = "rotated"]
    /\ UNCHANGED <<numKeys, keyRotationLock, now, rwaited, rresp, rinflight,
                   rcalls>>
    /\ UNCHANGED notRot

RotateResponseAlwaysOk(outcome, n, key, index) ==
    [status |-> 200, currentKeyIndex |-> index, availableKeys |-> n,
     keyRotated |-> TRUE]

\* what router.post('/rotate-key') sends: the keys headed by the new one
\* when rotateYoutubeKey returned, 500 when it threw
RotateResponse(outcome, n, key, index) ==
    IF outcome = "rotated"
    THEN [status |-> 200,
          youtubeApiKeys |-> KeysHeadedBy(n, key),
          currentKeyIndex |-> index,
          availableKeys |-> n,
          keyRotated |-> TRUE]
    ELSE [status |-> 500]

LockLeftOnThrow(outcome) == outcome = "threw"

\* the value finally { keyRotationLock = false } leaves in the lock, after
\* a return and after a throw alike
LockLeft(outcome) == FALSE

\* finally { keyRotationLock = false }, after which the handler of
\* router.post('/rotate-key') resumes in the same turn and sends the response
RotateRelease(r) ==
    /\ rpc[r] \in {"rotated", "threw"}
    /\ keyRotationLock' = LockLeft(rpc[r])
    /\ rresp' = [rresp EXCEPT ![r] =
                    RotateResponse(rpc[r], numKeys, rkey[r], currentKeyIndex)]
    /\ rpc' = [rpc EXCEPT ![r] = "done"]
    /\ UNCHANGED <<numKeys, currentKeyIndex, usageCount, quotaResets, now,
                   rwaited, rkey, rinflight, rcalls>>
    /\ UNCHANGED notRot

\* time passes
RotateTick ==
    /\ now + TickHours <= MaxTime
    /\ now' = now + TickHours
    /\ UNCHANGED <<numKeys, keyRotationLock, currentKeyIndex, usageCount,
                   quotaResets, rpc, rwaited, rkey, rresp, rinflight, rcalls>>
    /\ UNCHANGED notRot

\* GET /config: 500 without YouTube keys or without the Gemini key, else
\* the keys headed by youtubeApiKeys[currentKeyIndex]
ConfigGet(geminiConfigured) ==
    /\ qresp' =
          IF numKeys = 0
          THEN [route |-> "GET /config", status |-> 500, missing |-> "youtube"]
          ELSE IF ~geminiConfigured
          THEN [route |-> "GET /config", status |-> 500, missing |-> "gemini"]
          ELSE [route |-> "GET /config", status |-> 200,
                youtubeApiKeys |->
                    KeysHeadedBy(numKeys, KeyAt(numKeys, currentKeyIndex)),
                keyRotated |-> FALSE]
    /\ UNCHANGED <<rotVars, cdVars, loadVars, batchVars, store, ops, dbReady, cresp,
                   lastWritten, putVars, getVars, sweepVars, srvVars>>

\* GET /key-usage: currentKeyIndex and, per tracked index, the usage count
\* and the last reset
KeyUsageGet ==
    /\ qresp' = [route |-> "GET /key-usage", status |-> 200,
                 currentKeyIndex |-> currentKeyIndex,
                 usage |-> [i \in DOMAIN usageCount |->
                               [keyIndex |-> i, usageCount |-> usageCount[i],
                                lastReset |-> quotaResets[i]]]]
    /\ UNCHANGED <<rotVars, cdVars, loadVars, batchVars, store, ops, dbReady, cresp,
                   lastWritten, putVars, getVars, sweepVars, srvVars>>

NextRotate ==
    \/ \E r \in Reqs : RotateArrive(r)
    \/ \E r \in Reqs : RotateSpin(r)
    \/ \E r \in Reqs : RotateAcquire(r)
    \/ \E r \in Reqs : RotateBody(r)
    \/ \E r \in Reqs : RotateRelease(r)
    \/ RotateTick

SpecRotate == InitRotate /\ [][NextRotate]_vars

\* The rotation under the scheduling of the event loop. The body and the
\* finally block run in the turn in which the loop exits, so a call that
\* holds the lock goes on. The timer of a waiting call fires every 10 ms
\* and its test of the lock runs each time: a call that finds the lock
\* free again and again leaves the loop.
rotPositions == <<rpc, keyRotationLock>>

\* a server started without keys, and one started with two
FairPoolSizes == {0, 2}

InitRotateFair ==
    /\ InitKeyTracking(FairPoolSizes)
    /\ InitCacheData
    /\ InitIdleServer
    /\ InitNoLoader
    /\ InitNoBatch
    /\ InitNoCache

SpecRotateFair ==
    /\ InitRotateFair
    /\ [][NextRotate]_vars
    /\ \A r \in Reqs : SF_rotPositions(RotateAcquire(r))
    /\ \A r \in Reqs : WF_rotPositions(RotateBody(r))
    /\ \A r \in Reqs : WF_rotPositions(RotateRelease(r))

\* The key pool with its read routes beside the rotation: a server started
\* without keys, and one started with three
PoolSizes == {0, 3}

InitPool ==
    /\ InitKeyTracking(PoolSizes)
    /\ InitCacheData
    /\ InitIdleServer
    /\ InitNoLoader
    /\ InitNoBatch
    /\ InitNoCache

NextPool ==
    \/ \E gem \in BOOLEAN : ConfigGet(gem)
    \/ KeyUsageGet
    \/ \E r \in Reqs : RotateArrive(r)
    \/ \E r \in Reqs : RotateSpin(r)
    \/ \E r \in Reqs : RotateAcquire(r)
    \/ \E r \in Reqs : RotateBody(r)
    \/ \E r \in Reqs : RotateRelease(r)
    \/ RotateTick

SpecPool == InitPool /\ [][NextPool]_vars

\* ------------------------------------------------------------------------
\* cacheData (client): the retry loop around POST /api/cache
\* ------------------------------------------------------------------------
\* cacheData is called with a key and data that pass its validation:
\* attempts = 0 and the first POST is issued
CacheDataStarted ==
    /\ cdState = "idle"
    /\ cdState' = "posting"
    /\ cdAttempts' = 0
    /\ cdLastError' = NoError
    /\ UNCHANGED <<cdLogged, cdReq, cdDelay>>

\* response.ok: return result
CacheDataPostOk ==
    /\ cdState = "posting"
    /\ cdState' = "ok"
    /\ UNCHANGED <<cdAttempts, cdLogged, cdLastError, cdReq, cdDelay>>
    /\ UNCHANGED <<rotVars, loadVars, batchVars, cacheVars, srvVars>>

\* catch (error) { lastError = error; attempts++; ... }: the error is named
\* by the attempt it ended and by its kind; then either the backoff sleep
\* or, after the last attempt, throw lastError
\* Math.pow(2, attempts) * 1000, attempts being the value after attempts++
CacheDataBackoff(attempts) == (2 ^ attempts) * 1000

KeepFirstError(last, error) == IF last = NoError THEN error ELSE last

CatchError(last, error) == error

CacheDataCaught(kind, status) ==
    /\ cdState = "posting"
    /\ cdLastError' = CatchError(cdLastError,
                                 [attempt |-> cdAttempts + 1, kind |-> kind,
                                  status |-> status])
    /\ cdAttempts' = cdAttempts + 1
    /\ cdState' = IF cdAttempts + 1 < CacheDataMaxAttempts THEN "backoff"
                  ELSE "failed"
    /\ cdDelay' = IF cdAttempts + 1 < CacheDataMaxAttempts
                  THEN CacheDataBackoff(cdAttempts + 1)
                  ELSE 0
    /\ UNCHANGED <<cdLogged, cdReq>>

\* the POST failed (network error or !response.ok)
CacheDataPostFail ==
    /\ CacheDataCaught("failed", 0)
    /\ UNCHANGED <<rotVars, loadVars, batchVars, cacheVars, srvVars>>

\* the backoff timer fires and the loop issues the next POST
CacheDataRetry ==
    /\ cdState = "backoff"
    /\ cdState' = "posting"
    /\ cdDelay' = 0
    /\ UNCHANGED <<cdAttempts, cdLogged, cdLastError, cdReq>>
    /\ UNCHANGED <<rotVars, loadVars, batchVars, cacheVars, srvVars>>

\* ------------------------------------------------------------------------
\* Loaders of services/youtube.js
\* ------------------------------------------------------------------------
Loaders == {"loadPlaylistData", "loadChannelData", "getChannelDetails",
            "getChannelIdByHandle"}

\* the loaders that ask getCachedData first
CachedLoaders == Loaders \ {"getChannelDetails"}

\* the loaders whose cacheData call is not awaited
BackgroundCachers == {"loadPlaylistData", "loadChannelData"}

\* the request slot used by this browser
ClientReq == 1

GetLastApiKey(keys) == IF Len(keys) = 0 THEN NoApiKey ELSE keys[Len(keys)]

\* getCurrentApiKey()
GetCurrentApiKey(keys) == IF Len(keys) = 0 THEN NoApiKey ELSE keys[1]

\* the page is initialised (initConfig, initYouTubeAPI) with at least one key;
\* getYouTubeApiKeys() of config.js is the list GET /config returned
InitLoad ==
    /\ InitKeyTracking(1..KeySlots)
    /\ InitCacheData
    /\ InitIdleServer
    /\ lop \in Loaders
    /\ lpc = "idle"
    /\ currentApiKeys = KeysHeadedBy(numKeys, KeyAt(numKeys, currentKeyIndex))
    /\ exhausted \in SUBSET {YoutubeApiKeys(numKeys)[i] : i \in 1..numKeys}
    /\ lattempts = 0
    /\ lkeyUsed = NoApiKey
    /\ ldelivered = FALSE
    /\ lerror = None
    /\ llookup = None
    /\ InitNoBatch
    /\ InitNoCache

\* where an invocation of the loader begins: the cache lookup, or the
\* upstream call for getChannelDetails
LoaderEntry(op) == IF op \in CachedLoaders THEN "lookup" ELSE "fetch"

\* the key read by getCurrentApiKey() when an invocation that starts with
\* the upstream call is entered
KeyOnEntry(op, keys, old) ==
    IF LoaderEntry(op) = "fetch" THEN GetCurrentApiKey(keys) ELSE old

\* the user triggers the loader
LoadStart ==
    /\ lpc = "idle"
    /\ lattempts' = 1
    /\ lpc' = LoaderEntry(lop)
    /\ lkeyUsed' = KeyOnEntry(lop, currentApiKeys, lkeyUsed)
    /\ UNCHANGED <<lop, llookup, currentApiKeys, exhausted, ldelivered, lerror>>
    /\ UNCHANGED <<rotVars, cdVars, batchVars, cacheVars, srvVars>>

\* How POST /api/cache/get can go for getCachedData: 200 with the data the
\* loader looks for, 200 with data that lacks videos, 200 without data, a
\* 404, another error status, a rejected fetch, a body that is not JSON.
LookupAnswers == {"data", "novideos", "nodata", "404", "400", "500",
                  "network", "notjson"}

LookupFailures == {"400", "500", "network", "notjson", "nodata"}

Null == [threw |-> FALSE, data |-> "null"]

GetCachedDataRethrowing(answer) ==
    IF answer \in {"data", "novideos"} THEN [threw |-> FALSE, data |-> answer]
    ELSE IF answer \in {"404", "nodata"} THEN Null
    ELSE [threw |-> TRUE, data |-> "null"]

\* getCachedData: result.data for a 200 with data; null for a 404, for a
\* 200 without data, and from the catch block for everything that threw
GetCachedData(answer) ==
    IF answer \in {"data", "novideos"} THEN [threw |-> FALSE, data |-> answer]
    ELSE Null

\* if (cachedData) for getChannelIdByHandle, if (cachedData &&
\* cachedData.videos) for the other loaders
LoaderAccepts(op, cachedData) ==
    IF op = "getChannelIdByHandle" THEN cachedData.data # "null"
    ELSE cachedData.data = "data"

\* getCachedData returned data the loader accepts: show it and return
LoadCacheHit(answer) ==
    /\ lpc = "lookup"
    /\ ~GetCachedData(answer).threw
    /\ LoaderAccepts(lop, GetCachedData(answer))
    /\ lpc' = "done"
    /\ ldelivered' = TRUE
    /\ llookup' = answer
    /\ UNCHANGED <<lop, currentApiKeys, exhausted, lattempts, lkeyUsed, lerror>>
    /\ UNCHANGED <<rotVars, cdVars, batchVars, cacheVars, srvVars>>

\* getCachedData returned null (404, no data, or a caught error), or data
\* without the field the loader needs: go to the upstream. The loaders
\* await getCachedData outside their try block: an error thrown by it would
\* reject the loader.
LoadCacheMiss(answer) ==
    /\ lpc = "lookup"
    /\ GetCachedData(answer).threw
         \/ ~LoaderAccepts(lop, GetCachedData(answer))
    /\ llookup' = answer
    /\ IF GetCachedData(answer).threw
       THEN lpc' = "failed" /\ lerror' = "lookup" /\ UNCHANGED lkeyUsed
       ELSE /\ UNCHANGED lerror
            /\ IF lop = "getChannelIdByHandle"
               THEN lpc' = "resolve" /\ UNCHANGED lkeyUsed
               ELSE lpc' = "fetch"
                    /\ lkeyUsed' = GetCurrentApiKey(currentApiKeys)
    /\ UNCHANGED <<lop, currentApiKeys, exhausted, lattempts, ldelivered>>
    /\ UNCHANGED <<rotVars, cdVars, batchVars, cacheVars, srvVars>>

\* getChannelIdByHandle: /api/resolve-handle answered with a channel id
LoadResolveOk ==
    /\ lpc = "resolve"
    /\ lpc' = "fetch"
    /\ lkeyUsed' = GetCurrentApiKey(currentApiKeys)
    /\ UNCHANGED <<lop, llookup, currentApiKeys, exhausted, lattempts, ldelivered, lerror>>
    /\ UNCHANGED <<rotVars, cdVars, batchVars, cacheVars, srvVars>>

\* getChannelIdByHandle: /api/resolve-handle failed; the error is rethrown
LoadResolveFail ==
    /\ lpc = "resolve"
    /\ lpc' = "failed"
    /\ lerror' = "resolve"
    /\ UNCHANGED <<lop, llookup, currentApiKeys, exhausted, lattempts, lkeyUsed, ldelivered>>
    /\ UNCHANGED <<rotVars, cdVars, batchVars, cacheVars, srvVars>>

\* the upstream answered "quota exceeded": the catch block calls
\* rotateApiKey, which POSTs /api/rotate-key
LoadFetchQuota ==
    /\ lpc = "fetch"
    /\ lkeyUsed \in exhausted
    /\ lpc' = "rotating"
    /\ RotateArrived(ClientReq)
    /\ UNCHANGED <<lop, llookup, currentApiKeys, exhausted, lattempts, lkeyUsed,
                   ldelivered, lerror>>
    /\ UNCHANGED <<cdVars, batchVars, cacheVars, srvVars>>

\* the upstream calls succeeded and produced a result: hand it to the page,
\* then call cacheData (awaited only by getChannelIdByHandle)
LoadFetchOk ==
    /\ lpc = "fetch"
    /\ lkeyUsed \notin exhausted
    /\ ldelivered' = TRUE
    /\ IF lop = "getChannelDetails"
       THEN lpc' = "done" /\ UNCHANGED cdVars
       ELSE /\ CacheDataStarted
            /\ lpc' = IF lop \in BackgroundCachers THEN "done" ELSE "caching"
    /\ UNCHANGED <<lop, llookup, currentApiKeys, exhausted, lattempts, lkeyUsed, lerror>>
    /\ UNCHANGED <<rotVars, batchVars, cacheVars, srvVars>>

\* the upstream calls succeeded but produced nothing: loadChannelData only
\* shows a toast, the other loaders throw
LoadFetchEmpty ==
    /\ lpc = "fetch"
    /\ lkeyUsed \notin exhausted
    /\ IF lop = "loadChannelData"
       THEN lpc' = "done" /\ UNCHANGED lerror
       ELSE lpc' = "failed" /\ lerror' = "empty"
    /\ UNCHANGED <<lop, llookup, currentApiKeys, exhausted, lattempts, lkeyUsed, ldelivered>>
    /\ UNCHANGED <<rotVars, cdVars, batchVars, cacheVars, srvVars>>

\* the upstream call failed with an error that does not mention quota: the
\* catch block throws at once
LoadFetchError ==
    /\ lpc = "fetch"
    /\ lkeyUsed \notin exhausted
    /\ lpc' = "failed"
    /\ lerror' = "upstream"
    /\ UNCHANGED <<lop, llookup, currentApiKeys, exhausted, lattempts, lkeyUsed, ldelivered>>
    /\ UNCHANGED <<rotVars, cdVars, batchVars, cacheVars, srvVars>>

\* rotateApiKey got keyRotated: currentApiKeys = data.youtubeApiKeys, and the
\* loader calls itself again
LoadRotateOk ==
    /\ lpc = "rotating"
    /\ rpc[ClientReq] = "done"
    /\ rresp[ClientReq].status = 200
    /\ currentApiKeys' = rresp[ClientReq].youtubeApiKeys
    /\ lattempts' = lattempts + 1
    /\ lpc' = LoaderEntry(lop)
    /\ lkeyUsed' = KeyOnEntry(lop, rresp[ClientReq].youtubeApiKeys, lkeyUsed)
    /\ UNCHANGED <<lop, llookup, exhausted, ldelivered, lerror>>
    /\ UNCHANGED <<rotVars, cdVars, batchVars, cacheVars, srvVars>>

\* rotateApiKey threw: the request failed or the answer lacks keyRotated
LoadRotateFail ==
    /\ lpc = "rotating"
    /\ rpc[ClientReq] = "done"
    /\ lpc' = "failed"
    /\ lerror' = "rotate"
    /\ UNCHANGED <<lop, llookup, currentApiKeys, exhausted, lattempts, lkeyUsed, ldelivered>>
    /\ UNCHANGED <<rotVars, cdVars, batchVars, cacheVars, srvVars>>

\* getChannelIdByHandle: await cacheData(...) settled; a rejection reaches the
\* catch block, does not mention quota, and is rethrown
LoadCacheSettled ==
    /\ lpc = "caching"
    /\ cdState \in {"ok", "failed"}
    /\ IF cdState = "ok"
       THEN lpc' = "done" /\ UNCHANGED lerror
       ELSE lpc' = "failed" /\ lerror' = "cache"
    /\ UNCHANGED <<lop, llookup, currentApiKeys, exhausted, lattempts, lkeyUsed, ldelivered>>
    /\ UNCHANGED <<rotVars, cdVars, batchVars, cacheVars, srvVars>>

\* loadPlaylistData, loadChannelData: .catch(err => console.error(...))
LoadBackgroundCatch ==
    /\ lop \in BackgroundCachers
    /\ cdState = "failed"
    /\ ~cdLogged
    /\ cdLogged' = TRUE
    /\ UNCHANGED <<cdState, cdAttempts, cdLastError, cdReq, cdDelay>>
    /\ UNCHANGED <<rotVars, loadVars, batchVars, cacheVars, srvVars>>

NextLoad ==
    \/ LoadStart
    \/ \E answer \in LookupAnswers : LoadCacheHit(answer)
    \/ \E answer \in LookupAnswers : LoadCacheMiss(answer)
    \/ LoadResolveOk
    \/ LoadResolveFail
    \/ LoadFetchQuota
    \/ LoadFetchOk
    \/ LoadFetchEmpty
    \/ LoadFetchError
    \/ LoadRotateOk
    \/ LoadRotateFail
    \/ LoadCacheSettled
    \/ LoadBackgroundCatch
    \/ CacheDataPostOk
    \/ CacheDataPostFail
    \/ CacheDataRetry
    \/ RotateAcquire(ClientReq)
    \/ RotateBody(ClientReq)
    \/ RotateRelease(ClientReq)

SpecLoad == InitLoad /\ [][NextLoad]_vars

\* What the code makes sure happens: the server answers /api/resolve-handle
\* (its request to youtube.com has a 10 s timeout) and /api/rotate-key, and
\* the timers and continuations of cacheData run. Nothing bounds the time
\* the browser's fetch of the YouTube API may take, so no fairness is put
\* on its answers.
LoadAnswered ==
    \/ LoadResolveOk
    \/ LoadResolveFail
    \/ LoadRotateOk
    \/ LoadRotateFail
    \/ LoadCacheSettled
    \/ RotateAcquire(ClientReq)
    \/ RotateBody(ClientReq)
    \/ RotateRelease(ClientReq)
    \/ CacheDataRetry

\* each of these steps changes the position of the loader, of the rotate
\* request or of cacheData
loadPositions == <<lpc, rpc, cdState>>

SpecLoadFair == SpecLoad /\ WF_loadPositions(LoadAnswered)

\* ------------------------------------------------------------------------
\* categorizeVideos (services/gemini.js)
\* ------------------------------------------------------------------------
\* category labels the model lets Gemini answer with; NoName is a category
\* object whose "category" is missing or empty
Cats == {"A", "B"}
NoName == "noname"
\* a "videos" member that is not an array
NotArray == "notarray"
\* a title that no video carries
UnknownTitle == -1
NotFound == -1

\* the lengths of globalState.videos the model starts from: none, and for
\* each number of chunks a last chunk of 50 or of BATCH_SIZE videos
VideoCounts ==
    {0} \cup {(k - 1) * BATCH_SIZE + r : k \in 1..MaxChunks, r \in {50, BATCH_SIZE}}

\* how titles repeat in globalState.videos: all different, the same titles
\* again in every chunk, or every title twice in a row
Titlings == {"unique", "repeat", "pairs"}

\* videos[i].title; the video at index i is identified by i
VideoTitle(t, i) ==
    CASE t = "unique" -> i
      [] t = "repeat" -> i % BATCH_SIZE
      [] t = "pairs" -> i \div 2

\* Math.ceil(videos.length / BATCH_SIZE)
TotalBatches(n) == (n + BATCH_SIZE - 1) \div BATCH_SIZE

BatchVideosEndInclusive(n, i) ==
    {v \in (i * BATCH_SIZE)..(i * BATCH_SIZE + BATCH_SIZE) : v < n}

\* videos.slice(start, end) for chunk i, as the set of indexes
BatchVideos(n, i) ==
    {v \in (i * BATCH_SIZE)..(i * BATCH_SIZE + BATCH_SIZE - 1) : v < n}

FindVideoOrFirst(n, t, title) ==
    LET matches == {i \in 0..(n - 1) : VideoTitle(t, i) = title}
    IN IF matches = {} THEN 0
       ELSE CHOOSE i \in matches : \A j \in matches : i <= j

\* videos.find(v => v.title === videoInfo.title): the first video of the
\* whole list with that title
FindOriginalVideo(n, t, title) ==
    LET matches == {i \in 0..(n - 1) : VideoTitle(t, i) = title}
    IN IF matches = {} THEN NotFound
       ELSE CHOOSE i \in matches : \A j \in matches : i <= j

EmptyCats == <<>>

\* categoryObj.videos.forEach(videoInfo => { find; push if found })
RECURSIVE PushFound(_, _, _, _)
PushFound(list, titles, n, t) ==
    IF titles = <<>> THEN list
    ELSE LET originalVideo == FindOriginalVideo(n, t, Head(titles))
         IN PushFound(IF originalVideo # NotFound
                      THEN Append(list, originalVideo) ELSE list,
                      Tail(titles), n, t)

EnteredWhenFound(cats, categoryName, list) ==
    IF list = <<>> THEN cats
    ELSE [k \in (DOMAIN cats) \cup {categoryName} |->
             IF k = categoryName THEN list ELSE cats[k]]

\* batchCategories after if (!batchCategories[categoryName])
\* batchCategories[categoryName] = [] and the pushes of the found videos:
\* the label is a key whether or not a video was found
Entered(cats, categoryName, list) ==
    [k \in (DOMAIN cats) \cup {categoryName} |->
        IF k = categoryName THEN list ELSE cats[k]]

\* parsedCategories.forEach(categoryObj => { ... }) building batchCategories
RECURSIVE BatchCategories(_, _, _, _)
BatchCategories(acc, parsed, n, t) ==
    IF parsed = <<>> THEN acc
    ELSE LET categoryObj == Head(parsed)
             categoryName == categoryObj.category
         IN IF categoryName = NoName \/ categoryObj.videos = NotArray
            THEN BatchCategories(acc, Tail(parsed), n, t)
            ELSE LET had == IF categoryName \in DOMAIN acc
                            THEN acc[categoryName] ELSE <<>>
                     list == PushFound(had, categoryObj.videos, n, t)
                 IN BatchCategories(Entered(acc, categoryName, list),
                                    Tail(parsed), n, t)

\* the elements of a sequence
Elements(seq) == {seq[i] : i \in DOMAIN seq}

\* Object.keys(batchCategories): the labels in the order in which
\* batchCategories[categoryName] = [] created them
RECURSIVE BatchKeys(_, _)
BatchKeys(acc, parsed) ==
    IF parsed = <<>> THEN acc
    ELSE LET categoryObj == Head(parsed)
             categoryName == categoryObj.category
         IN IF categoryName = NoName \/ categoryObj.videos = NotArray
               \/ categoryName \in Elements(acc)
            THEN BatchKeys(acc, Tail(parsed))
            ELSE BatchKeys(Append(acc, categoryName), Tail(parsed))

RECURSIVE MergeKeys(_, _)
MergeKeysInFront(all, batchKeys) ==
    SelectSeq(batchKeys, LAMBDA k : k \notin Elements(all)) \o all

\* Object.keys(allCategories) after the keys of one batchCategories were
\* merged: allCategories[categoryName] = [] appends a label not yet there
MergeKeys(all, batchKeys) ==
    IF batchKeys = <<>> THEN all
    ELSE MergeKeys(IF Head(batchKeys) \in Elements(all) THEN all
                   ELSE Append(all, Head(batchKeys)),
                   Tail(batchKeys))

MergeReplace(all, batchCategories) ==
    [k \in (DOMAIN all) \cup (DOMAIN batchCategories) |->
        IF k \in DOMAIN batchCategories THEN batchCategories[k] ELSE all[k]]

\* Object.keys(batchCategories).forEach(categoryName => {
\*     create the list if missing; allCategories[categoryName].push(...) })
MergeInto(all, batchCategories) ==
    [k \in (DOMAIN all) \cup (DOMAIN batchCategories) |->
        (IF k \in DOMAIN all THEN all[k] ELSE <<>>)
        \o (IF k \in DOMAIN batchCategories THEN batchCategories[k] ELSE <<>>)]

RECURSIVE MergeBackwards(_, _, _)
MergeBackwards(all, promises, results) ==
    IF promises = <<>> THEN all
    ELSE MergeInto(MergeBackwards(all, Tail(promises), results),
                   results[Head(promises)])

RECURSIVE MergeResults(_, _, _)
MergeResultsInReverse(all, promises, results) ==
    MergeBackwards(all, promises, results)

\* results.forEach(batchCategories => merge), in the order of batchPromises
MergeResults(all, promises, results) ==
    IF promises = <<>> THEN all
    ELSE MergeResults(MergeInto(all, results[Head(promises)]),
                      Tail(promises), results)

\* Object.keys(allCategories) after results.forEach
RECURSIVE MergeResultKeys(_, _, _)
MergeResultKeys(all, promises, keys) ==
    IF promises = <<>> THEN all
    ELSE MergeResultKeys(MergeKeys(all, keys[Head(promises)]),
                         Tail(promises), keys)

WaveFullOnlyAtEnd(len, i, total) == i = total - 1

\* batchPromises.length >= MAX_PARALLEL || i === totalBatches - 1
WaveFull(len, i, total) == len >= MAX_PARALLEL \/ i = total - 1

\* the iterations of the for loop from index i up to the one that awaits:
\* the chunk promises pushed to batchPromises before Promise.all is called
RECURSIVE WaveFrom(_, _, _)
WaveFrom(i, promises, total) ==
    IF i >= total THEN promises
    ELSE LET pushed == Append(promises, i)
         IN IF WaveFull(Len(pushed), i, total) THEN pushed
            ELSE WaveFrom(i + 1, pushed, total)

\* The answers the model lets Gemini give for chunk i. For the first
\* RichChunks chunks: category objects that name the chunk's first and last
\* title, a title twice, a title under two categories, the first title of
\* another chunk, an unknown title, and category objects the forEach skips.
\* For the chunks after them: the first title, or an unknown title.
ChunkAnswers(n, t, i) ==
    LET first == VideoTitle(t, i * BATCH_SIZE)
        lastIdx == IF (i + 1) * BATCH_SIZE <= n THEN (i + 1) * BATCH_SIZE - 1
                   ELSE n - 1
        last == VideoTitle(t, lastIdx)
        other == VideoTitle(t, ((i + 1) % TotalBatches(n)) * BATCH_SIZE)
        plain == { <<[category |-> "A", videos |-> <<first>>]>>,
                   <<[category |-> "B", videos |-> <<UnknownTitle>>]>> }
        rich == { <<[category |-> "A", videos |-> <<first, first>>]>>,
                  <<[category |-> "A", videos |-> <<first>>],
                    [category |-> "B", videos |-> <<first>>]>>,
                  <<[category |-> "A", videos |-> <<other>>]>>,
                  <<[category |-> NoName, videos |-> <<first>>],
                    [category |-> "A", videos |-> NotArray]>>,
                  <<[category |-> "B", videos |-> <<last>>],
                    [category |-> "A", videos |-> <<first>>]>> }
    IN IF i < RichChunks THEN plain \cup rich ELSE plain

ChunkIds == 0..(TotalBatches(nVideos) - 1)

\* chunk calls sent and not yet settled
Outstanding == {c \in DOMAIN chunk : chunk[c].state = "inflight"}

InitBatch ==
    /\ InitKeyTracking({0})
    /\ InitCacheData
    /\ InitIdleServer
    /\ InitNoLoader
    /\ nVideos \in VideoCounts
    /\ titling \in Titlings
    /\ geminiKey \in BOOLEAN
    /\ bpc = "idle"
    /\ batchPromises = <<>>
    /\ chunk = [c \in ChunkIds |-> [state |-> "none", how |-> None]]
    /\ bresult = [c \in ChunkIds |-> EmptyCats]
    /\ allCategories = EmptyCats
    /\ bdisplayed = None
    /\ berror = None
    /\ bcause = None
    /\ bkeys = [c \in ChunkIds |-> <<>>]
    /\ allKeys = <<>>
    /\ bsettled = <<>>
    /\ InitNoCache

\* The for loop runs from index i without yielding until it awaits
\* Promise.all: it creates the chunk promises of one wave. Each promise runs
\* up to its fetch; without a Gemini key it throws before the fetch, and
\* Promise.all then rejects and the catch block runs. After the last chunk
\* the loop ends: no category -> throw, else cacheData is called and awaited.
ContinueLoop(i, all, keys, chunks) ==
    LET total == TotalBatches(nVideos)
        wave == WaveFrom(i, <<>>, total)
        inWave == {wave[j] : j \in 1..Len(wave)}
    IN IF i < total
       THEN /\ allCategories' = all
            /\ allKeys' = keys
            /\ batchPromises' = wave
            /\ chunk' = [c \in DOMAIN chunks |->
                            IF c \in inWave
                            THEN IF geminiKey
                                 THEN [state |-> "inflight", how |-> None]
                                 ELSE [state |-> "rejected", how |-> "nokey"]
                            ELSE chunks[c]]
            /\ IF geminiKey
               THEN bpc' = "await" /\ UNCHANGED <<berror, bcause>>
               ELSE bpc' = "failed" /\ berror' = "chunk" /\ bcause' = wave[1]
            /\ UNCHANGED cdVars
       ELSE /\ allCategories' = all
            /\ allKeys' = keys
            /\ batchPromises' = <<>>
            /\ chunk' = chunks
            /\ UNCHANGED bcause
            /\ IF DOMAIN all = {}
               THEN bpc' = "failed" /\ berror' = "nocategories"
                    /\ UNCHANGED cdVars
               ELSE bpc' = "store" /\ UNCHANGED berror /\ CacheDataStarted

\* the user asks for categories; with no videos only a warning is shown,
\* otherwise getCachedData is awaited
BatchCategorize ==
    /\ bpc = "idle"
    /\ bpc' = IF nVideos = 0 THEN "returned" ELSE "lookup"
    /\ UNCHANGED <<nVideos, titling, geminiKey, batchPromises, chunk, bresult,
                   allCategories, bdisplayed, berror, bcause, bkeys, allKeys,
                   bsettled>>
    /\ UNCHANGED <<rotVars, cdVars, loadVars, cacheVars, srvVars>>

\* cachedCategories && cachedCategories.categories: display them and return
BatchCacheHit ==
    /\ bpc = "lookup"
    /\ bpc' = "done"
    /\ bdisplayed' = "cached"
    /\ UNCHANGED <<nVideos, titling, geminiKey, batchPromises, chunk, bresult,
                   allCategories, berror, bcause, bkeys, allKeys, bsettled>>
    /\ UNCHANGED <<rotVars, cdVars, loadVars, cacheVars, srvVars>>

\* nothing usable in the cache: the loop starts its first wave
BatchCacheMiss ==
    /\ bpc = "lookup"
    /\ ContinueLoop(0, EmptyCats, <<>>, chunk)
    /\ UNCHANGED <<nVideos, titling, geminiKey, bresult, bdisplayed, bkeys,
                   bsettled>>
    /\ UNCHANGED <<rotVars, loadVars, cacheVars, srvVars>>

\* A chunk call resolves with batchCategories (from a parsed answer, or {}
\* after a parse error). When it is the last of the wave Promise.all
\* resolves: the results are merged and the loop goes on.
ChunkFulfilled(c, how, batchCategories, batchKeys) ==
    LET chunks == [chunk EXCEPT ![c] = [state |-> "fulfilled", how |-> how]]
        results == [bresult EXCEPT ![c] = batchCategories]
        keys == [bkeys EXCEPT ![c] = batchKeys]
        waveDone == \A j \in 1..Len(batchPromises) :
                        chunks[batchPromises[j]].state = "fulfilled"
    IN /\ chunk[c].state = "inflight"
       /\ bresult' = results
       /\ bkeys' = keys
       /\ IF bpc = "await" /\ waveDone
          THEN ContinueLoop(batchPromises[Len(batchPromises)] + 1,
                            MergeResults(allCategories, batchPromises, results),
                            MergeResultKeys(allKeys, batchPromises, keys),
                            chunks)
          ELSE /\ chunk' = chunks
               /\ UNCHANGED <<bpc, batchPromises, allCategories, allKeys,
                              berror, bcause>>
               /\ UNCHANGED cdVars
       /\ UNCHANGED <<nVideos, titling, geminiKey, bdisplayed>>
       /\ UNCHANGED <<rotVars, loadVars, cacheVars, srvVars>>

\* the answer parsed: batchCategories is built from parsedCategories
ChunkParsedAs(c) ==
    \E parsed \in ChunkAnswers(nVideos, titling, c) :
        ChunkFulfilled(c, "parsed",
                       BatchCategories(EmptyCats, parsed, nVideos, titling),
                       BatchKeys(<<>>, parsed))

ChunkParsed(c) == ChunkParsedAs(c) /\ UNCHANGED bsettled

\* JSON.parse threw: return {}
ChunkMalformed(c) ==
    ChunkFulfilled(c, "malformed", EmptyCats, <<>>) /\ UNCHANGED bsettled

\* A chunk call throws: the fetch failed or !response.ok ("http"), the
\* response has no text ("notext"), or the parsed value is not an array of
\* objects ("structure"). While categorizeVideos awaits the wave, Promise.all
\* rejects with it and the catch block reports the failure.
ChunkRejected(c, how) ==
    /\ chunk[c].state = "inflight"
    /\ chunk' = [chunk EXCEPT ![c] = [state |-> "rejected", how |-> how]]
    /\ IF bpc = "await"
       THEN bpc' = "failed" /\ berror' = "chunk" /\ bcause' = c
       ELSE UNCHANGED <<bpc, berror, bcause>>
    /\ UNCHANGED <<nVideos, titling, geminiKey, batchPromises, bresult,
                   allCategories, bdisplayed, bkeys, allKeys>>
    /\ UNCHANGED <<rotVars, cdVars, loadVars, cacheVars, srvVars>>

ChunkHttpError(c) == ChunkRejected(c, "http") /\ UNCHANGED bsettled

ChunkNoText(c) == ChunkRejected(c, "notext") /\ UNCHANGED bsettled

ChunkBadStructure(c) == ChunkRejected(c, "structure") /\ UNCHANGED bsettled

\* await cacheData(...) settled: display the categories, or catch the error
BatchStoreSettled ==
    /\ bpc = "store"
    /\ cdState \in {"ok", "failed"}
    /\ IF cdState = "ok"
       THEN bpc' = "done" /\ bdisplayed' = "fresh" /\ UNCHANGED berror
       ELSE bpc' = "failed" /\ berror' = "cache" /\ UNCHANGED bdisplayed
    /\ UNCHANGED <<nVideos, titling, geminiKey, batchPromises, chunk, bresult,
                   allCategories, bcause, bkeys, allKeys, bsettled>>
    /\ UNCHANGED <<rotVars, cdVars, loadVars, cacheVars, srvVars>>

NextBatch ==
    \/ BatchCategorize
    \/ BatchCacheHit
    \/ BatchCacheMiss
    \/ \E c \in ChunkIds : ChunkParsed(c)
    \/ \E c \in ChunkIds : ChunkMalformed(c)
    \/ \E c \in ChunkIds : ChunkHttpError(c)
    \/ \E c \in ChunkIds : ChunkNoText(c)
    \/ \E c \in ChunkIds : ChunkBadStructure(c)
    \/ BatchStoreSettled
    \/ CacheDataPostOk
    \/ CacheDataPostFail
    \/ CacheDataRetry

SpecBatch == InitBatch /\ [][NextBatch]_vars

\* The same job observed with a log of the order in which the chunk calls
\* of the wave being awaited settle: a list of videos with distinct titles that makes one wave of two
\* chunks, or MaxChunks chunks in more than one wave, with a Gemini key.
MergeCounts == {(k - 1) * BATCH_SIZE + 50 : k \in {2, MaxChunks}}

InitMerge ==
    /\ InitKeyTracking({0})
    /\ InitCacheData
    /\ InitIdleServer
    /\ InitNoLoader
    /\ nVideos \in MergeCounts
    /\ titling = "unique"
    /\ geminiKey = TRUE
    /\ bpc = "idle"
    /\ batchPromises = <<>>
    /\ chunk = [c \in ChunkIds |-> [state |-> "none", how |-> None]]
    /\ bresult = [c \in ChunkIds |-> EmptyCats]
    /\ allCategories = EmptyCats
    /\ bdisplayed = None
    /\ berror = None
    /\ bcause = None
    /\ bkeys = [c \in ChunkIds |-> <<>>]
    /\ allKeys = <<>>
    /\ bsettled = <<>>
    /\ InitNoCache

\* the chunk call c is entered in the log; the log starts again when the
\* loop creates the next wave
Logged(c) ==
    bsettled' = IF batchPromises' \notin {batchPromises, <<>>} THEN <<>>
                ELSE Append(bsettled, c)

LoggedParsed(c) == ChunkParsedAs(c) /\ Logged(c)

LoggedMalformed(c) ==
    ChunkFulfilled(c, "malformed", EmptyCats, <<>>) /\ Logged(c)

LoggedRejected(c) ==
    \E how \in {"http", "notext", "structure"} :
        ChunkRejected(c, how) /\ Logged(c)

NextMerge ==
    \/ BatchCategorize
    \/ BatchCacheHit
    \/ BatchCacheMiss
    \/ \E c \in ChunkIds : LoggedParsed(c)
    \/ \E c \in ChunkIds : LoggedMalformed(c)
    \/ \E c \in ChunkIds : LoggedRejected(c)
    \/ BatchStoreSettled
    \/ CacheDataPostOk
    \/ CacheDataPostFail
    \/ CacheDataRetry

SpecMerge == InitMerge /\ [][NextMerge]_vars

\* ------------------------------------------------------------------------
\* Cache routes of src/src/routes/api.js
\* ------------------------------------------------------------------------
\* DB_CONFIG.cacheExpiry, in hours
CacheExpiry == [channels |-> 24, videos |-> 12, categories |-> 48, playlists |-> 24]

\* a collection name that DB_CONFIG.collections does not have
BogusCollection == "bogus"

\* the collection names the requests of the model carry: two with
\* different expiry times and an invalid one
RequestCollections == {"videos", "channels", BogusCollection}

\* the fields of a document that hold cached data
PayloadFields == {"videos", "channelId", "uploadsPlaylistId", "categories"}

\* restriction of a record to some of its fields
Restrict(rec, fields) == [f \in (DOMAIN rec) \cap fields |-> rec[f]]

\* The bodies the model sends as "data": a video list, a channel pair,
\* an object with no recognized field, and a video list whose JSON is
\* longer than MAX_DATA_SIZE.
DataChoices ==
    { [videos |-> 1],
      [channelId |-> 1, uploadsPlaylistId |-> 1],
      [other |-> 1],
      [videos |-> 1, huge |-> TRUE] }

\* JSON.stringify(data).length > MAX_DATA_SIZE
TooLarge(data) == "huge" \in DOMAIN data

\* const cacheDoc = { key, collection, expiresAt, updatedAt, cacheVersion }
\* plus the members of data among videos, channelId, uploadsPlaylistId,
\* categories that are truthy
CacheDoc(key, data, collection, t) ==
    LET base == [key |-> key, collection |-> collection,
                 expiresAt |-> t + CacheExpiry[collection],
                 updatedAt |-> t, cacheVersion |-> 1]
        kept == Restrict(data, PayloadFields)
    IN [f \in (DOMAIN base) \cup (DOMAIN kept) |->
            IF f \in DOMAIN kept THEN kept[f] ELSE base[f]]

\* { $set: cacheDoc } applied to the document old
UpsertSet(old, cacheDoc) ==
    IF old = NoDoc THEN cacheDoc
    ELSE [f \in (DOMAIN old) \cup (DOMAIN cacheDoc) |->
            IF f \in DOMAIN cacheDoc THEN cacheDoc[f] ELSE old[f]]

\* the positions of the documents of a collection that the filter { key }
\* matches, and the first of a set of positions
WithKey(docs, key) == {i \in DOMAIN docs : docs[i].key = key}
FirstOf(positions) == CHOOSE i \in positions : \A j \in positions : i <= j

\* updateOne({ key }, { $set: cacheDoc }) on a collection holding a match
UpdateOne(docs, key, cacheDoc) ==
    [docs EXCEPT ![FirstOf(WithKey(docs, key))] = UpsertSet(@, cacheDoc)]

\* the documents without the one at position i
RemoveAt(docs, i) ==
    [j \in 1..(Len(docs) - 1) |-> IF j < i THEN docs[j] ELSE docs[j + 1]]

MatchesAnyDocument(doc, t) == doc # NoDoc

\* the filter of findOne: { key, $or: [ { expiresAt: { $exists: false } },
\*                                      { expiresAt: { $gt: now } } ] }
MatchesLive(doc, t) ==
    /\ doc # NoDoc
    /\ ("expiresAt" \notin DOMAIN doc \/ doc.expiresAt > t)

MatchesExpiredOrUndated(doc, t) ==
    /\ doc # NoDoc
    /\ ("expiresAt" \notin DOMAIN doc \/ doc.expiresAt < t)

\* the filter { expiresAt: { $lt: now } } of deleteOne and deleteMany
MatchesExpired(doc, t) ==
    /\ doc # NoDoc
    /\ "expiresAt" \in DOMAIN doc
    /\ doc.expiresAt < t

\* findOne({ key, $or: [...] }): the first match, NoDoc without one
FindOne(docs, key, t) ==
    LET hits == {i \in WithKey(docs, key) : MatchesLive(docs[i], t)}
    IN IF hits = {} THEN NoDoc ELSE docs[FirstOf(hits)]

AllWithKey(docs, key, t) == WithKey(docs, key)

\* the filter { key, expiresAt: { $lt: now } } of the cleanup delete: the
\* positions of the documents of the key that expired before t
ExpiredWithKey(docs, key, t) ==
    {i \in WithKey(docs, key) : MatchesExpired(docs[i], t)}

DeleteOneOfAnyKey(docs, key, t) ==
    LET hits == {i \in DOMAIN docs : MatchesExpired(docs[i], t)}
    IN IF hits = {} THEN docs ELSE RemoveAt(docs, FirstOf(hits))

\* deleteOne({ key, expiresAt: { $lt: now } })
DeleteOne(docs, key, t) ==
    LET hits == ExpiredWithKey(docs, key, t)
    IN IF hits = {} THEN docs ELSE RemoveAt(docs, FirstOf(hits))

\* deleteMany({ expiresAt: { $lt: now } })
DeleteMany(docs, t) == SelectSeq(docs, LAMBDA doc : ~MatchesExpired(doc, t))

\* res.json({ data }) of GET /cache sends the document; POST /cache/get
\* sends dataToReturn, the truthy cached fields of the document
DataToReturn(route, doc) ==
    IF route = "GET /cache" THEN doc ELSE Restrict(doc, PayloadFields)

\* a document written before documents had expiresAt
LegacyDoc(key) == [key |-> key, videos |-> 0]

\* what videos holds under key 1 when the server starts: a document
\* without expiresAt, or the document an earlier POST /cache of a video
\* list left at time 0; the other collections are empty
StoredAtStart ==
    { LegacyDoc(1), CacheDoc(1, [videos |-> 0], "videos", 0) }

InitCache ==
    /\ InitKeyTracking({0})
    /\ InitCacheData
    /\ InitIdleServer
    /\ InitNoLoader
    /\ InitNoBatch
    /\ \E doc \in StoredAtStart :
          /\ store = [c \in Collections |->
                          IF c = "videos" THEN <<doc>> ELSE <<>>]
          /\ lastWritten = [c \in Collections |-> [k \in Keys |->
                                IF c = "videos" /\ k = 1
                                THEN Restrict(doc, PayloadFields) ELSE NoDoc]]
    /\ ops = 0
    /\ dbReady = FALSE
    /\ cresp = NoResp
    /\ ppc = [p \in Puts |-> "idle"]
    /\ preq = [p \in Puts |-> NoPut]
    /\ pdoc = [p \in Puts |-> NoDoc]
    /\ pattempts = [p \in Puts |-> 0]
    /\ pdelay = [p \in Puts |-> 0]
    /\ gpc = "idle"
    /\ greq = NoGet
    /\ gnow = 0
    /\ gexpired = FALSE
    /\ gexpect = NoDoc
    /\ spc = "idle"
    /\ snow = 0
    /\ spending = {}
    /\ sdeleted = [c \in Collections |-> 0]
    /\ qresp = NoResp

rotButNow == <<numKeys, keyRotationLock, currentKeyIndex, usageCount,
               quotaResets, rpc, rwaited, rkey, rresp, rinflight, rcalls>>
notCache == <<rotButNow, cdVars, loadVars, batchVars, readVars, srvVars>>

\* the number of requests to the cache routes that are being handled
InFlight ==
    Cardinality({p \in Puts : ppc[p] # "idle"})
    + (IF gpc # "idle" THEN 1 ELSE 0)
    + (IF spc # "idle" THEN 1 ELSE 0)

\* POST /cache arrives. cacheMiddleware rejects an unknown collection, the
\* handler a missing key or data and a payload over 10 MB; otherwise
\* expiresAt and cacheDoc are computed and the first updateOne is sent.
PutHandle(p, collection, key, data) ==
    /\ ppc[p] = "idle"
    /\ dbReady' = TRUE
    /\ IF collection \notin Collections \/ key = NoKey \/ data = NoData
       THEN /\ cresp' = [route |-> "POST /cache", status |-> 400]
            /\ UNCHANGED <<ppc, preq, pdoc>>
       ELSE IF TooLarge(data)
       THEN /\ cresp' = [route |-> "POST /cache", status |-> 413]
            /\ UNCHANGED <<ppc, preq, pdoc>>
       ELSE /\ ppc' = [ppc EXCEPT ![p] = "update"]
            /\ preq' = [preq EXCEPT ![p] =
                            [collection |-> collection, key |-> key,
                             data |-> data]]
            /\ pdoc' = [pdoc EXCEPT ![p] = CacheDoc(key, data, collection, now)]
            /\ cresp' = NoResp
    /\ UNCHANGED <<store, lastWritten, pattempts, pdelay, getVars, sweepVars, now,
                   rotButNow, loadVars, batchVars, readVars, srvVars>>

\* one of at most MaxOps requests to the cache routes, handled in the first
\* free slot
PutArrive(p, collection, key, data) ==
    /\ \A q \in Puts : q < p => ppc[q] # "idle"
    /\ ops < MaxOps
    /\ ops' = ops + 1
    /\ PutHandle(p, collection, key, data)
    /\ UNCHANGED cdVars

\* POST /cache arrives while fewer than MaxInFlight cache requests are
\* being handled
PutBegin(p, collection, key, data) ==
    /\ InFlight < MaxInFlight
    /\ PutArrive(p, collection, key, data)

\* updateOne with upsert found no document of the key and goes on to insert
\* one. Nothing in the code creates the unique index on key (createIndexes
\* is never called), so the insert is not checked against the inserts of
\* other requests.
PutUpsertMiss(p) ==
    /\ ppc[p] = "update"
    /\ WithKey(store[preq[p].collection], preq[p].key) = {}
    /\ ppc' = [ppc EXCEPT ![p] = "insert"]
    /\ UNCHANGED <<notCache, store, ops, dbReady, cresp, lastWritten, preq, pdoc,
                   pattempts, pdelay, getVars, sweepVars, now>>

\* updateOne succeeded, having set the fields of the document it matched or
\* inserted cacheDoc: 200 with expiresAt and inserted/updated
PutUpdateOk(p) ==
    /\ \/ ppc[p] = "insert"
       \/ ppc[p] = "update" /\ WithKey(store[preq[p].collection], preq[p].key) # {}
    /\ LET c == preq[p].collection
           k == preq[p].key
       IN /\ store' = [store EXCEPT ![c] =
                          IF ppc[p] = "insert" THEN Append(@, pdoc[p])
                          ELSE UpdateOne(@, k, pdoc[p])]
          /\ lastWritten' = [lastWritten EXCEPT ![c][k] =
                                Restrict(pdoc[p], PayloadFields)]
          /\ cresp' = [route |-> "POST /cache", status |-> 200,
                       expiresAt |-> pdoc[p].expiresAt,
                       operation |-> IF ppc[p] = "insert" THEN "inserted"
                                     ELSE "updated"]
    /\ ppc' = [ppc EXCEPT ![p] = "idle"]
    /\ preq' = [preq EXCEPT ![p] = NoPut]
    /\ pdoc' = [pdoc EXCEPT ![p] = NoDoc]
    /\ pattempts' = [pattempts EXCEPT ![p] = 0]
    /\ UNCHANGED <<notCache, ops, dbReady, pdelay, getVars, sweepVars, now>>

\* setTimeout(resolve, 1000), whatever attempts is
PutBackoff(attempts) == 1000

\* updateOne threw: attempts++, rethrow (500) on the third failure, else
\* sleep a second
PutUpdateFail(p) ==
    /\ ppc[p] \in {"update", "insert"}
    /\ IF pattempts[p] + 1 = PutMaxAttempts
       THEN /\ ppc' = [ppc EXCEPT ![p] = "idle"]
            /\ cresp' = [route |-> "POST /cache", status |-> 500,
                         details |-> [attempt |-> pattempts[p] + 1]]
            /\ preq' = [preq EXCEPT ![p] = NoPut]
            /\ pdoc' = [pdoc EXCEPT ![p] = NoDoc]
            /\ pattempts' = [pattempts EXCEPT ![p] = 0]
            /\ UNCHANGED pdelay
       ELSE /\ ppc' = [ppc EXCEPT ![p] = "sleep"]
            /\ pattempts' = [pattempts EXCEPT ![p] = pattempts[p] + 1]
            /\ pdelay' = [pdelay EXCEPT ![p] = PutBackoff(pattempts[p] + 1)]
            /\ UNCHANGED <<cresp, preq, pdoc>>
    /\ UNCHANGED <<notCache, store, ops, dbReady, lastWritten, getVars, sweepVars, now>>

\* the sleep ends and updateOne is sent again
PutRetry(p) ==
    /\ ppc[p] = "sleep"
    /\ ppc' = [ppc EXCEPT ![p] = "update"]
    /\ pdelay' = [pdelay EXCEPT ![p] = 0]
    /\ UNCHANGED <<notCache, store, ops, dbReady, cresp, lastWritten, preq, pdoc,
                   pattempts, getVars, sweepVars, now>>

\* GET /cache or POST /cache/get arrives. getCacheMiddleware rejects an
\* unknown collection, the handler a missing key; otherwise now is taken
\* and findOne is sent.
GetArrive(route, collection, key) ==
    /\ gpc = "idle"
    /\ ops < MaxOps
    /\ ops' = ops + 1
    /\ dbReady' = TRUE
    /\ IF collection \notin Collections \/ key = NoKey
       THEN /\ cresp' = [route |-> route, status |-> 400]
            /\ UNCHANGED <<gpc, greq, gnow>>
       ELSE /\ gpc' = "find"
            /\ greq' = [route |-> route, collection |-> collection, key |-> key]
            /\ gnow' = now
            /\ cresp' = NoResp
    /\ UNCHANGED <<notCache, store, lastWritten, putVars, gexpired, gexpect,
                   sweepVars, now>>

\* a read arrives while at most MaxInFlight - 1 requests are being handled
GetBegin(route, collection, key) ==
    /\ InFlight < MaxInFlight
    /\ GetArrive(route, collection, key)

\* findOne runs: a live document is sent back with 200, otherwise the
\* handler sends deleteOne. With the response the model records what the
\* read met: whether the document of the key had expired, and the payload
\* of the last put stored under the key.
GetFind ==
    /\ gpc = "find"
    /\ LET docs == store[greq.collection]
           doc == FindOne(docs, greq.key, gnow)
           expired == IF doc # NoDoc THEN MatchesExpired(doc, gnow)
                      ELSE \E i \in WithKey(docs, greq.key) :
                              MatchesExpired(docs[i], gnow)
           expect == lastWritten[greq.collection][greq.key]
       IN IF doc # NoDoc
          THEN /\ gpc' = "idle"
               /\ cresp' = [route |-> greq.route, status |-> 200,
                            data |-> DataToReturn(greq.route, doc),
                            expired |-> expired, expect |-> expect]
               /\ greq' = NoGet
               /\ gnow' = 0
               /\ UNCHANGED <<gexpired, gexpect>>
          ELSE /\ gpc' = "cleanup"
               /\ gexpired' = expired
               /\ gexpect' = expect
               /\ UNCHANGED <<cresp, greq, gnow>>
    /\ UNCHANGED <<notCache, store, ops, dbReady, lastWritten, putVars, sweepVars, now>>

\* deleteOne({ key, expiresAt: { $lt: now } }) runs, then 404
GetCleanup ==
    /\ gpc = "cleanup"
    /\ store' = [store EXCEPT ![greq.collection] = DeleteOne(@, greq.key, gnow)]
    /\ cresp' = [route |-> greq.route, status |-> 404,
                 expired |-> gexpired, expect |-> gexpect]
    /\ gpc' = "idle"
    /\ greq' = NoGet
    /\ gnow' = 0
    /\ gexpired' = FALSE
    /\ gexpect' = NoDoc
    /\ UNCHANGED <<notCache, ops, dbReady, lastWritten, putVars, sweepVars, now>>

\* findOne or deleteOne threw: the catch block answers 500
GetStoreError ==
    /\ gpc \in {"find", "cleanup"}
    /\ cresp' = [route |-> greq.route, status |-> 500]
    /\ gpc' = "idle"
    /\ greq' = NoGet
    /\ gnow' = 0
    /\ gexpired' = FALSE
    /\ gexpect' = NoDoc
    /\ UNCHANGED <<notCache, store, ops, dbReady, lastWritten, putVars, sweepVars, now>>

\* the collections in which deleteMany({ expiresAt: { $lt: t } }) has
\* something to delete
HoldingExpired(st, t) ==
    {c \in Collections : \E i \in DOMAIN st[c] : MatchesExpired(st[c][i], t)}

\* DELETE /cache/expired arrives. The route does not go through
\* ensureConnection: while db is not set, db.collection throws and the
\* catch block answers 500. Otherwise one deleteMany per collection is sent, each
\* with the time of the request. A document written later expires after
\* that time, so a deleteMany that matches nothing now will match nothing
\* when it runs: only the others are kept as pending steps, and with none
\* the response (all counts 0) is sent at once.
SweepBegin ==
    /\ spc = "idle"
    /\ ops < MaxOps
    /\ InFlight < MaxInFlight
    /\ ops' = ops + 1
    /\ LET pending == HoldingExpired(store, now)
       IN IF ~dbReady
          THEN /\ cresp' = [route |-> "DELETE /cache/expired", status |-> 500]
               /\ UNCHANGED <<spc, snow, spending>>
          ELSE IF pending = {}
          THEN /\ cresp' = [route |-> "DELETE /cache/expired", status |-> 200,
                            results |-> [c \in Collections |-> 0]]
               /\ UNCHANGED <<spc, snow, spending>>
          ELSE /\ spc' = "running"
               /\ snow' = now
               /\ spending' = pending
               /\ cresp' = NoResp
    /\ UNCHANGED <<notCache, store, dbReady, lastWritten, putVars, getVars,
                   sdeleted, now>>

\* the deleteMany of one collection runs; after the last one the response
\* with the deleted counts is sent
SweepDelete(c) ==
    /\ spc = "running"
    /\ c \in spending
    /\ LET kept == DeleteMany(store[c], snow)
           counts == [sdeleted EXCEPT ![c] = Len(store[c]) - Len(kept)]
       IN /\ store' = [store EXCEPT ![c] = kept]
          /\ IF spending = {c}
             THEN /\ cresp' = [route |-> "DELETE /cache/expired",
                               status |-> 200, results |-> counts]
                  /\ spc' = "idle"
                  /\ snow' = 0
                  /\ sdeleted' = [d \in Collections |-> 0]
             ELSE /\ sdeleted' = counts
                  /\ UNCHANGED <<cresp, spc, snow>>
    /\ spending' = spending \ {c}
    /\ UNCHANGED <<notCache, ops, dbReady, lastWritten, putVars, getVars, now>>

\* time passes
CacheTick ==
    /\ now + TickHours <= MaxTime
    /\ now' = now + TickHours
    /\ UNCHANGED <<notCache, store, ops, dbReady, cresp, lastWritten, putVars, getVars,
                   sweepVars>>

GetRoutes == {"GET /cache", "POST /cache/get"}

NextCache ==
    \/ \E p \in Puts : \E c \in RequestCollections :
         \E k \in Keys \cup {NoKey} : \E d \in DataChoices \cup {NoData} :
            PutBegin(p, c, k, d)
    \/ \E p \in Puts : PutUpsertMiss(p)
    \/ \E p \in Puts : PutUpdateOk(p)
    \/ \E p \in Puts : PutUpdateFail(p)
    \/ \E p \in Puts : PutRetry(p)
    \/ \E route \in GetRoutes :
         \E c \in RequestCollections : \E k \in Keys \cup {NoKey} :
            GetBegin(route, c, k)
    \/ GetFind
    \/ GetCleanup
    \/ GetStoreError
    \/ SweepBegin
    \/ \E c \in Collections : SweepDelete(c)
    \/ CacheTick

SpecCache == InitCache /\ [][NextCache]_vars

\* The cache routes on a database that also holds entries of other pairs:
\* in "videos" an entry of another key, stored before the entry of key 1,
\* and in "channels" an entry of key 1. No request names the other key.
OtherKey == 2

InitPairs ==
    /\ InitKeyTracking({0})
    /\ InitCacheData
    /\ InitIdleServer
    /\ InitNoLoader
    /\ InitNoBatch
    /\ store = [c \in Collections |->
                  IF c = "videos"
                  THEN <<CacheDoc(OtherKey, [videos |-> 0], "videos", 0),
                         CacheDoc(1, [videos |-> 0], "videos", 0)>>
                  ELSE IF c = "channels"
                  THEN <<CacheDoc(1, [channelId |-> 0], "channels", 0)>>
                  ELSE <<>>]
    /\ lastWritten = [c \in Collections |-> [k \in Keys |->
                          IF c \in {"videos", "channels"}
                          THEN Restrict(store[c][Len(store[c])], PayloadFields)
                          ELSE NoDoc]]
    /\ ops = 0
    /\ dbReady = FALSE
    /\ cresp = NoResp
    /\ ppc = [p \in Puts |-> "idle"]
    /\ preq = [p \in Puts |-> NoPut]
    /\ pdoc = [p \in Puts |-> NoDoc]
    /\ pattempts = [p \in Puts |-> 0]
    /\ pdelay = [p \in Puts |-> 0]
    /\ gpc = "idle"
    /\ greq = NoGet
    /\ gnow = 0
    /\ gexpired = FALSE
    /\ gexpect = NoDoc
    /\ spc = "idle"
    /\ snow = 0
    /\ spending = {}
    /\ sdeleted = [c \in Collections |-> 0]
    /\ qresp = NoResp

SpecPairs == InitPairs /\ [][NextCache]_vars

\* The writers alone: up to MaxWriters POST /cache requests handled at the
\* same time on an empty database.
InitUpsert ==
    /\ InitKeyTracking({0})
    /\ InitCacheData
    /\ InitIdleServer
    /\ InitNoLoader
    /\ InitNoBatch
    /\ InitNoCache

NextUpsert ==
    \/ \E p \in Puts : \E c \in RequestCollections :
         \E k \in Keys \cup {NoKey} : \E d \in DataChoices \cup {NoData} :
            PutArrive(p, c, k, d)
    \/ \E p \in Puts : PutUpsertMiss(p)
    \/ \E p \in Puts : PutUpdateOk(p)
    \/ \E p \in Puts : PutUpdateFail(p)
    \/ \E p \in Puts : PutRetry(p)

SpecUpsert == InitUpsert /\ [][NextUpsert]_vars

\* A read and the writers together: POST /cache requests for ("videos", 1)
\* are handled while a read of the same pair is between its findOne and its
\* deleteOne, and time passes.
NextEvict ==
    \/ \E p \in Puts : \E d \in DataChoices : PutArrive(p, "videos", 1, d)
    \/ \E p \in Puts : PutUpsertMiss(p)
    \/ \E p \in Puts : PutUpdateOk(p)
    \/ \E p \in Puts : PutUpdateFail(p)
    \/ \E p \in Puts : PutRetry(p)
    \/ \E route \in GetRoutes : GetArrive(route, "videos", 1)
    \/ GetFind
    \/ GetCleanup
    \/ GetStoreError
    \/ CacheTick

SpecEvict == InitCache /\ [][NextEvict]_vars

\* ------------------------------------------------------------------------
\* GET /resolve-handle of src/src/routes/api.js
\* ------------------------------------------------------------------------
\* const MAX_RESPONSE_SIZE = 5 * 1024 * 1024, in MB
MAX_RESPONSE_MB == 5

\* the sizes of the chunks the 'data' events bring, in MB
ChunkMB == {1, 3}

\* req.query.handle: absent, refused by the format test, or accepted
Handles == {"missing", "invalid", "valid"}

\* response.statusCode of the page of the channel
UpstreamStatuses == {200, 302, 404, 503}

\* what the steps of the route leave alone
notHandle == <<rotVars, cdVars, loadVars, batchVars, cacheVars, connVars>>

\* res.status(status).json(...) is called for request r
Send(r, status) == hsent' = [hsent EXCEPT ![r] = Append(@, status)]

\* GET /resolve-handle arrives: 400 without a handle or with one the format
\* test refuses, else https.get is issued and the timeout and error
\* handlers are set
ResolveArrive(r, handle) ==
    /\ hpc[r] \in {"idle", "closed"}
    /\ dataSize' = [dataSize EXCEPT ![r] = 0]
    /\ hdestroyed' = [hdestroyed EXCEPT ![r] = FALSE]
    /\ IF handle = "valid"
       THEN /\ hsent' = [hsent EXCEPT ![r] = <<>>]
            /\ hpc' = [hpc EXCEPT ![r] = "waiting"]
       ELSE /\ hsent' = [hsent EXCEPT ![r] = <<400>>]
            /\ hpc' = [hpc EXCEPT ![r] = "closed"]
    /\ UNCHANGED notHandle

\* the callback of https.get: 404 and every other status than 200 are
\* answered at once and the body is left unread; with 200 the 'data' and
\* 'end' listeners are set
UpstreamResponse(r, status) ==
    /\ hpc[r] = "waiting"
    /\ IF status = 200
       THEN /\ hpc' = [hpc EXCEPT ![r] = "body"]
            /\ UNCHANGED hsent
       ELSE /\ Send(r, status)
            /\ hpc' = [hpc EXCEPT ![r] = "unread"]
    /\ UNCHANGED <<dataSize, hdestroyed>>
    /\ UNCHANGED notHandle

\* response.on('data'): past the limit the request is destroyed and 413
\* is sent; a request destroyed after its response came emits no 'error'
\* and its response no 'end'
UpstreamData(r, len) ==
    /\ hpc[r] = "body"
    /\ dataSize' = [dataSize EXCEPT ![r] = @ + len]
    /\ IF dataSize'[r] > MAX_RESPONSE_MB
       THEN /\ hdestroyed' = [hdestroyed EXCEPT ![r] = TRUE]
            /\ Send(r, 413)
            /\ hpc' = [hpc EXCEPT ![r] = "closed"]
       ELSE UNCHANGED <<hdestroyed, hsent, hpc>>
    /\ UNCHANGED notHandle

\* response.on('end'): the channel id is searched in data; 200 with the id
\* or 404
UpstreamEnd(r, found) ==
    /\ hpc[r] = "body"
    /\ Send(r, IF found THEN 200 ELSE 404)
    /\ hpc' = [hpc EXCEPT ![r] = "closed"]
    /\ UNCHANGED <<dataSize, hdestroyed>>
    /\ UNCHANGED notHandle

\* request.setTimeout(10000, ...): the socket was idle for 10 s, before
\* the response came, while the body was coming, or with the body of an
\* answered status left unread. The request is destroyed and 504 is sent.
\* A request destroyed before its response came emits 'error' (socket
\* hang up) afterwards.
UpstreamTimeout(r) ==
    /\ hpc[r] \in {"waiting", "body", "unread"}
    /\ hdestroyed' = [hdestroyed EXCEPT ![r] = TRUE]
    /\ Send(r, 504)
    /\ hpc' = [hpc EXCEPT ![r] = IF @ = "waiting" THEN "hangup" ELSE "closed"]
    /\ UNCHANGED dataSize
    /\ UNCHANGED notHandle

\* request.on('error'): the connection failed before a response came, or
\* the request was destroyed before a response came; 500 is sent
RequestError(r) ==
    /\ hpc[r] \in {"waiting", "hangup"}
    /\ Send(r, 500)
    /\ hpc' = [hpc EXCEPT ![r] = "closed"]
    /\ UNCHANGED <<dataSize, hdestroyed>>
    /\ UNCHANGED notHandle

\* the socket of an answered status closes with its body unread
UpstreamClose(r) ==
    /\ hpc[r] = "unread"
    /\ hpc' = [hpc EXCEPT ![r] = "closed"]
    /\ UNCHANGED <<dataSize, hsent, hdestroyed>>
    /\ UNCHANGED notHandle

InitResolve ==
    /\ InitKeyTracking({0})
    /\ InitCacheData
    /\ InitIdleServer
    /\ InitNoLoader
    /\ InitNoBatch
    /\ InitNoCache

NextResolve ==
    \/ \E r \in Reqs : \E handle \in Handles : ResolveArrive(r, handle)
    \/ \E r \in Reqs : \E status \in UpstreamStatuses : UpstreamResponse(r, status)
    \/ \E r \in Reqs : \E len \in ChunkMB : UpstreamData(r, len)
    \/ \E r \in Reqs : \E found \in BOOLEAN : UpstreamEnd(r, found)
    \/ \E r \in Reqs : UpstreamTimeout(r)
    \/ \E r \in Reqs : RequestError(r)
    \/ \E r \in Reqs : UpstreamClose(r)

SpecResolve == InitResolve /\ [][NextResolve]_vars

\* ------------------------------------------------------------------------
\* connectToDatabase and ensureConnection of src/src/routes/api.js, with
\* MONGODB_URI set
\* ------------------------------------------------------------------------
\* what the steps of the connection leave alone
notConn == <<rotVars, cdVars, loadVars, batchVars, handleVars, store, ops, cresp,
             lastWritten, putVars, getVars, sweepVars, readVars>>

\* the attempts whose promise is pending
InProgress == {i \in DOMAIN connAttempts : connAttempts[i] \in {"connect", "ping"}}

NeverJoins(connecting) == FALSE

\* if (isConnecting) return connectionPromise
Joins(connecting) == connecting

\* request r calls connectToDatabase and awaits what it returns: the
\* promise of the attempt in progress, or that of a new attempt, whose
\* executor sets client when there is none and calls client.connect()
ConnectToDatabase(r) ==
    /\ IF Joins(isConnecting)
       THEN /\ ewait' = [ewait EXCEPT ![r] = connectionPromise]
            /\ UNCHANGED <<client, isConnecting, connectionPromise, connAttempts>>
       ELSE /\ Len(connAttempts) < MaxConnects
            /\ isConnecting' = TRUE
            /\ client' = TRUE
            /\ connAttempts' = Append(connAttempts, "connect")
            /\ connectionPromise' = Len(connAttempts) + 1
            /\ ewait' = [ewait EXCEPT ![r] = Len(connAttempts) + 1]
    /\ epc' = [epc EXCEPT ![r] = "awaiting"]
    /\ UNCHANGED dbReady

\* a cache request reaches its middleware, which calls ensureConnection:
\* without db connectToDatabase is called, with db a ping is sent
EnsureConnection(r) ==
    /\ epc[r] \in {"idle", "passed", "failed"}
    /\ IF ~dbReady
       THEN ConnectToDatabase(r)
       ELSE /\ epc' = [epc EXCEPT ![r] = "pinging"]
            /\ UNCHANGED <<client, isConnecting, connectionPromise, connAttempts,
                           ewait, dbReady>>
    /\ UNCHANGED notConn

\* the ping of ensureConnection is answered: the middleware goes on
EnsurePingOk(r) ==
    /\ epc[r] = "pinging"
    /\ epc' = [epc EXCEPT ![r] = "passed"]
    /\ UNCHANGED <<client, isConnecting, connectionPromise, connAttempts, ewait,
                   dbReady>>
    /\ UNCHANGED notConn

\* the ping of ensureConnection fails: connectToDatabase is called
EnsurePingFail(r) ==
    /\ epc[r] = "pinging"
    /\ ConnectToDatabase(r)
    /\ UNCHANGED notConn

\* client.connect() resolved: db is set and the ping of the attempt is sent
AttemptConnected(i) ==
    /\ i \in DOMAIN connAttempts
    /\ connAttempts[i] = "connect"
    /\ connAttempts' = [connAttempts EXCEPT ![i] = "ping"]
    /\ dbReady' = TRUE
    /\ UNCHANGED <<client, isConnecting, connectionPromise, epc, ewait>>
    /\ UNCHANGED notConn

\* the ping of the attempt is answered within 2 s: resolve(), then the
\* finally block
AttemptReady(i) ==
    /\ i \in DOMAIN connAttempts
    /\ connAttempts[i] = "ping"
    /\ connAttempts' = [connAttempts EXCEPT ![i] = "resolved"]
    /\ isConnecting' = FALSE
    /\ UNCHANGED <<client, connectionPromise, epc, ewait, dbReady>>
    /\ UNCHANGED notConn

\* client.connect() rejected, or the ping failed or took more than 2 s:
\* the catch block resets client and db and rejects, then the finally block
AttemptFailed(i) ==
    /\ i \in InProgress
    /\ connAttempts' = [connAttempts EXCEPT ![i] = "rejected"]
    /\ client' = FALSE
    /\ dbReady' = FALSE
    /\ isConnecting' = FALSE
    /\ UNCHANGED <<connectionPromise, epc, ewait>>
    /\ UNCHANGED notConn

\* the promise request r awaits has settled: the middleware goes on, or
\* its catch block answers 500
EnsureReturns(r) ==
    /\ epc[r] = "awaiting"
    /\ ewait[r] \in DOMAIN connAttempts
    /\ connAttempts[ewait[r]] \in {"resolved", "rejected"}
    /\ epc' = [epc EXCEPT ![r] =
                  IF connAttempts[ewait[r]] = "resolved" THEN "passed" ELSE "failed"]
    /\ UNCHANGED <<client, isConnecting, connectionPromise, connAttempts, ewait,
                   dbReady>>
    /\ UNCHANGED notConn

InitConnect ==
    /\ InitKeyTracking({0})
    /\ InitCacheData
    /\ InitIdleServer
    /\ InitNoLoader
    /\ InitNoBatch
    /\ InitNoCache

NextConnect ==
    \/ \E r \in Reqs : EnsureConnection(r)
    \/ \E r \in Reqs : EnsurePingOk(r)
    \/ \E r \in Reqs : EnsurePingFail(r)
    \/ \E i \in 1..MaxConnects : AttemptConnected(i)
    \/ \E i \in 1..MaxConnects : AttemptReady(i)
    \/ \E i \in 1..MaxConnects : AttemptFailed(i)
    \/ \E r \in Reqs : EnsureReturns(r)

SpecConnect == InitConnect /\ [][NextConnect]_vars

\* ------------------------------------------------------------------------
\* cacheData and POST /cache together: one call of cacheData whose POSTs
\* are handled by the route on an empty database
\* ------------------------------------------------------------------------
\* the collections cacheData is called with: its default and one the server
\* does not know
WriteCollections == {"videos", BogusCollection}

\* validatedData: the recognized fields of data ("huge" stands for the size
\* of data.videos, which validatedData keeps)
ValidatedData(data) == Restrict(data, PayloadFields \cup {"huge"})

\* cacheData(key, data, collection) is called. Without data, or with no
\* recognized field in it, it throws before the loop ("rejected"); else
\* attempts = 0 and the first POST is issued.
WriteCall(collection, data) ==
    /\ cdState = "idle"
    /\ IF data = NoData \/ (DOMAIN ValidatedData(data)) \cap PayloadFields = {}
       THEN /\ cdState' = "rejected"
            /\ UNCHANGED <<cdAttempts, cdLastError, cdReq>>
       ELSE /\ cdState' = "posting"
            /\ cdAttempts' = 0
            /\ cdLastError' = NoError
            /\ cdReq' = [collection |-> collection,
                         data |-> ValidatedData(data)]
    /\ UNCHANGED <<cdLogged, cdDelay, rotVars, loadVars, batchVars, cacheVars, srvVars>>

\* the POST of cacheData is on its way: the server is not handling it and
\* has not answered it
WriteInTransit ==
    /\ cdState = "posting"
    /\ ppc[1] = "idle"
    /\ cresp = NoResp

\* the POST reaches the route
WriteArrive ==
    /\ WriteInTransit
    /\ PutHandle(1, cdReq.collection, 1, cdReq.data)
    /\ UNCHANGED <<ops, cdVars>>

\* fetch rejects: the request did not reach the server
WriteNetworkError ==
    /\ WriteInTransit
    /\ CacheDataCaught("network", 0)
    /\ UNCHANGED <<rotVars, loadVars, batchVars, cacheVars, srvVars>>

\* the response arrives: response.ok returns the result, any other status
\* throws inside the loop and is caught there
WriteResponse ==
    /\ cdState = "posting"
    /\ ppc[1] = "idle"
    /\ cresp # NoResp
    /\ IF cresp.status = 200
       THEN /\ cdState' = "ok"
            /\ UNCHANGED <<cdAttempts, cdLogged, cdLastError, cdReq, cdDelay>>
       ELSE CacheDataCaught("http", cresp.status)
    /\ cresp' = NoResp
    /\ UNCHANGED <<rotVars, loadVars, batchVars, store, ops, dbReady, lastWritten,
                   putVars, getVars, sweepVars, readVars, srvVars>>

NextWrite ==
    \/ \E c \in WriteCollections : \E d \in DataChoices \cup {NoData} :
         WriteCall(c, d)
    \/ WriteArrive
    \/ WriteNetworkError
    \/ WriteResponse
    \/ CacheDataRetry
    \/ PutUpsertMiss(1)
    \/ PutUpdateOk(1)
    \/ PutUpdateFail(1)
    \/ PutRetry(1)

SpecWrite == InitUpsert /\ [][NextWrite]_vars

\* ========================================================================
\* Properties
\* ========================================================================
\* rotate requests that have not yet run the try block of rotateYoutubeKey
RotNotYetAdvanced == {r \in Reqs : rpc[r] \in {"queued", "cs"}}

AllKeysExhausted ==
    exhausted = {YoutubeApiKeys(numKeys)[i] : i \in 1..numKeys}

\* C2: when every configured key reports quota exceeded, a loader stops once
\* the pool has wrapped around: it makes at most one attempt per key plus the
\* wrap-around attempt, and asks for no rotation after the wrap-around.
C2_StopsAfterWrapAround ==
    (lpc # "idle" /\ AllKeysExhausted) =>
        (lattempts <= numKeys + 1 /\ rcalls <= numKeys)

\* the chunk calls whose results have been merged into allCategories
MergedChunks ==
    {c \in DOMAIN chunk :
        /\ chunk[c].state = "fulfilled"
        /\ \A j \in 1..Len(batchPromises) : batchPromises[j] # c}

\* the for loop of categorizeVideos has ended with categories
LoopEndedWithCategories == bpc \in {"store", "done"} /\ bdisplayed # "cached"

\* part occurs in list as a run of consecutive elements
ContainsRun(list, part) ==
    \E i \in 0..(Len(list) - Len(part)) :
        \A j \in 1..Len(part) : list[i + j] = part[j]

\* C3: in the final merged result no video occurs twice, counted over all
\* categories and all positions.
C3_MergeIsPartition ==
    LoopEndedWithCategories =>
        \A k1 \in DOMAIN allCategories : \A k2 \in DOMAIN allCategories :
            \A i \in 1..Len(allCategories[k1]) :
                \A j \in 1..Len(allCategories[k2]) :
                    (k1 # k2 \/ i # j) =>
                        allCategories[k1][i] # allCategories[k2][j]

\* C4: every video a chunk call resolved a title to belongs to the slice of
\* videos that was sent in that chunk.
C4_ResolvedWithinOwnChunk ==
    \A c \in DOMAIN bresult : \A k \in DOMAIN bresult[c] :
        \A i \in 1..Len(bresult[c][k]) :
            bresult[c][k][i] \in BatchVideos(nVideos, c)

\* C7: at most MAX_PARALLEL chunk calls are outstanding.
C7_OutstandingBounded == Cardinality(Outstanding) <= MAX_PARALLEL

\* a full wave is outstanding while a later chunk has not been started
C7_Witness ==
    /\ Cardinality(Outstanding) = MAX_PARALLEL
    /\ \E c \in DOMAIN chunk : chunk[c].state = "none"

\* C8: when some chunk call succeeded with categories, the failure of
\* another chunk call does not fail the job.
C8_PartialFailureAbsorbed ==
    (\E c \in DOMAIN chunk :
        /\ chunk[c].state = "fulfilled"
        /\ chunk[c].how = "parsed"
        /\ DOMAIN bresult[c] # {})
    => berror # "chunk"

\* C9: a chunk call whose answer is malformed JSON resolves with no
\* category and is never the rejection that fails the job; and every chunk
\* call whose results were merged has each of its categories in
\* allCategories, with its items as a run of that category's list.
C9_MalformedChunkAbsorbed ==
    /\ \A c \in DOMAIN chunk :
          chunk[c].how = "malformed" =>
              chunk[c].state = "fulfilled" /\ DOMAIN bresult[c] = {}
    /\ berror = "chunk" => chunk[bcause].how \in {"http", "notext", "structure", "nokey"}
    /\ \A c \in MergedChunks : \A k \in DOMAIN bresult[c] :
          /\ k \in DOMAIN allCategories
          /\ ContainsRun(allCategories[k], bresult[c][k])

\* the first wave had a malformed chunk and two siblings with categories,
\* and the loop ended with the siblings' items merged
C9_Witness ==
    /\ LoopEndedWithCategories
    /\ \E c \in MergedChunks : \E d \in MergedChunks : \E e \in MergedChunks :
          /\ c < MAX_PARALLEL /\ d < MAX_PARALLEL /\ e < MAX_PARALLEL /\ d < e
          /\ chunk[c].how = "malformed"
          /\ chunk[d].how = "parsed" /\ chunk[e].how = "parsed"
          /\ "A" \in DOMAIN bresult[d] /\ bresult[d]["A"] # <<>>
          /\ "A" \in DOMAIN bresult[e] /\ bresult[e]["A"] # <<>>
          /\ ContainsRun(allCategories["A"], bresult[d]["A"] \o bresult[e]["A"])

\* C10: the result is shown before the cache write is waited for, and a
\* cache write that failed after its retries does not fail the operation.
C10_CacheWriteNeverWithholds ==
    /\ cdState # "idle" => bdisplayed # None
    /\ berror # "cache"

\* a cache read has just been answered after its findOne ran
ReadAnswered == cresp.route \in GetRoutes /\ "expired" \in DOMAIN cresp

\* C5: a read answered with 200 for a key under which a put was stored
\* returns exactly the payload of the last stored put: every recognized
\* field of the answer is a field of that put, with its value, and no
\* payload field of the entry the put replaced is left.
C5_RoundTripFullOverwrite ==
    (ReadAnswered /\ cresp.status = 200 /\ cresp.expect # NoDoc)
        => Restrict(cresp.data, PayloadFields) = cresp.expect

\* C6: a read (GET /cache or POST /cache/get) whose findOne meets an entry
\* with expiresAt earlier than the time of the read is answered with 404,
\* as for a key that has no entry, whether or not a lazy delete or the
\* sweep has removed an entry before; it is never answered with the entry.
C6_ExpiredEqualsAbsent ==
    ReadAnswered =>
        /\ cresp.expired => cresp.status = 404
        /\ cresp.status = 200 => ~cresp.expired

\* a read met an expired entry that nothing had removed and answered 404
C6_Witness ==
    /\ ReadAnswered
    /\ cresp.expired
    /\ cresp.status = 404
    /\ now > 0


\* C11: whatever the interleaving of the puts (one after the other, at the
\* same time, or retried), every collection holds at most one entry for a
\* key.
C11_AtMostOneEntry ==
    \A c \in Collections : \A k \in Keys : Cardinality(WithKey(store[c], k)) <= 1

\* the payloads of the entries a collection holds for a key
Payloads(docs, key) == {Restrict(docs[i], PayloadFields) : i \in WithKey(docs, key)}

\* the step in which the updateOne of put p succeeds
PutStored(p) ==
    /\ ppc[p] \in {"update", "insert"}
    /\ ppc'[p] = "idle"
    /\ cresp'.status = 200

\* C12: put is idempotent: a put that stores the payload that the last put
\* of its (collection, key) stored, while the entry of that put is there,
\* leaves the store as it was to a reader: the same payloads under the key
\* and no second entry.
C12_PutIdempotent ==
    [][\A p \in Puts :
          (/\ PutStored(p)
           /\ WithKey(store[preq[p].collection], preq[p].key) # {}
           /\ lastWritten[preq[p].collection][preq[p].key]
                 = Restrict(pdoc[p], PayloadFields))
          => LET c == preq[p].collection
                 k == preq[p].key
             IN /\ Cardinality(WithKey(store'[c], k))
                      = Cardinality(WithKey(store[c], k))
                /\ Payloads(store'[c], k) = Payloads(store[c], k)]_vars

\* C13: a put whose payload has none of the recognized fields (videos,
\* channelId, uploadsPlaylistId, categories) is rejected and stores
\* nothing: no updateOne succeeds for such a request.
C13_EmptyPayloadRejected ==
    [][\A p \in Puts :
          PutStored(p) => (DOMAIN preq[p].data) \cap PayloadFields # {}]_vars

\* the number of rotate calls that have run the try block
RotAdvanced == rcalls - Cardinality(RotNotYetAdvanced)

\* the step in which rotate call r runs its try block on a non-empty pool
RotateAdvances(r) == rpc[r] = "cs" /\ rpc'[r] = "rotated"

\* C14: rotation wraps. Each single rotate moves currentKeyIndex to the next
\* index modulo the number N of configured keys, nothing else moves it, and
\* after every N rotate calls the index is back at its original value 0.
C14_RotationWraps ==
    /\ [][/\ \A r \in Reqs : RotateAdvances(r) =>
                currentKeyIndex' = (currentKeyIndex + 1) % numKeys
          /\ currentKeyIndex' # currentKeyIndex =>
                \E r \in Reqs : RotateAdvances(r)]_vars
    /\ []((numKeys > 0 /\ RotAdvanced % numKeys = 0) => currentKeyIndex = 0)

\* N >= 2 keys, N rotate calls answered, and the index is back at 0
C14_Witness ==
    /\ numKeys >= 2
    /\ RotAdvanced = numKeys
    /\ \A r \in Reqs : rpc[r] \in {"idle", "done"}
    /\ currentKeyIndex = 0

\* rotate calls between acquiring and releasing keyRotationLock
RotInCriticalSection == {r \in Reqs : rpc[r] \in {"cs", "rotated", "threw"}}

\* C15: rotation is a critical section: at most one rotateYoutubeKey call is
\* between acquiring and releasing keyRotationLock, and the lock is held
\* exactly while one is.
C15_OneRotationInFlight ==
    /\ Cardinality(RotInCriticalSection) <= 1
    /\ keyRotationLock <=> RotInCriticalSection # {}

\* one call holds the lock while another one has found it taken and waits
C15_Witness ==
    \E r \in Reqs : \E q \in Reqs \ {r} :
        /\ rpc[r] \in {"cs", "rotated"}
        /\ rpc[q] = "queued"
        /\ rwaited[q]

\* C16: with no key configured, rotate fails: POST /rotate-key answers 500,
\* and currentKeyIndex, usageCount and quotaResets stay as they were.
C16_EmptyPoolFails ==
    /\ [](numKeys = 0 =>
            \A r \in Reqs : rpc[r] = "done" => rresp[r].status = 500)
    /\ [][numKeys = 0 =>
            UNCHANGED <<currentKeyIndex, usageCount, quotaResets>>]_vars

\* a rotate on the empty pool has been answered with 500
C16_Witness ==
    /\ numKeys = 0
    /\ \E r \in Reqs : rpc[r] = "done" /\ rresp[r].status = 500
    /\ currentKeyIndex = 0


\* ---------------------------------------------------------------------
\* C17: the key pool (the keys, currentKeyIndex, the usage counts and the
\* reset times) is changed by the rotate operation only: GET /config and
\* GET /key-usage answer without changing it, and a 200 of GET /config
\* lists every configured key once, headed by youtubeApiKeys[currentKeyIndex]
\* as it is when the request is served.
keyPool == <<numKeys, currentKeyIndex, usageCount, quotaResets>>

RotateRuns == \E r \in Reqs : rpc[r] = "cs" /\ rpc'[r] # "cs"

PoolReadAnswered == qresp' # qresp

Range(seq) == {seq[i] : i \in DOMAIN seq}

C17_PoolChangedByRotateOnly ==
    [][/\ keyPool' # keyPool => RotateRuns
       /\ PoolReadAnswered => keyPool' = keyPool
       /\ (PoolReadAnswered /\ qresp'.route = "GET /config"
              /\ qresp'.status = 200)
            => /\ Head(qresp'.youtubeApiKeys) = KeyAt(numKeys, currentKeyIndex)
               /\ Len(qresp'.youtubeApiKeys) = numKeys
               /\ Range(qresp'.youtubeApiKeys) = Range(YoutubeApiKeys(numKeys))
       /\ (PoolReadAnswered /\ qresp'.route = "GET /key-usage")
            => qresp'.currentKeyIndex = currentKeyIndex]_vars

C17_Witness ==
    /\ qresp.route = "GET /config"
    /\ qresp.status = 200
    /\ rcalls >= 2
    /\ currentKeyIndex = 2
    /\ \A r \in Reqs : rpc[r] \in {"idle", "done"}
    /\ Head(qresp.youtubeApiKeys) = KeyAt(numKeys, currentKeyIndex)
    /\ Len(qresp.youtubeApiKeys) = 3


\* ---------------------------------------------------------------------
\* the chunk calls the loop has created
IssuedChunks == {c \in DOMAIN chunk : chunk[c].state # "none"}

\* the for loop of categorizeVideos ran to its end: every wave was awaited
\* and merged
LoopEnded ==
    \/ LoopEndedWithCategories
    \/ bpc = "failed" /\ berror \in {"nocategories", "cache"}

\* the index at which chunk c starts when the chunks before it are laid
\* end to end
RECURSIVE SliceStart(_, _)
SliceStart(n, c) ==
    IF c = 0 THEN 0
    ELSE SliceStart(n, c - 1) + Cardinality(BatchVideos(n, c - 1))

\* the slices are non-empty runs of at most BATCH_SIZE consecutive indexes,
\* the first starts at 0, each starts right after the one before, and the
\* last ends at the last video
ConsecutiveSlices(n) ==
    /\ \A c \in 0..(TotalBatches(n) - 1) :
          LET slice == BatchVideos(n, c)
              size == Cardinality(slice)
          IN /\ size \in 1..BATCH_SIZE
             /\ slice = SliceStart(n, c)..(SliceStart(n, c) + size - 1)
    /\ SliceStart(n, TotalBatches(n)) = n

ItemsOf(cats) ==
    UNION {{cats[k][i] : i \in 1..Len(cats[k])} : k \in DOMAIN cats}

\* the titles the videos of the job carry
InputTitles(n, t) == {VideoTitle(t, i) : i \in 0..(n - 1)}

\* a list of titles without those no video of the job carries
RECURSIVE KnownTitles(_, _)
KnownTitles(titles, known) ==
    IF titles = <<>> THEN <<>>
    ELSE (IF Head(titles) \in known THEN <<Head(titles)>> ELSE <<>>)
         \o KnownTitles(Tail(titles), known)

\* an answer of Gemini without the titles no video of the job carries
WithoutUnknown(parsed, known) ==
    [j \in DOMAIN parsed |->
        IF parsed[j].videos = NotArray THEN parsed[j]
        ELSE [parsed[j] EXCEPT !.videos = KnownTitles(@, known)]]

\* C19: every video in a chunk's result and in the merged result is one of
\* the job's videos, and for every answer a chunk can get, the result built
\* from it is the result built from the answer without the titles that no
\* video of the job carries. (The videos do not change during a job, so the
\* answers are compared where the job starts.)
C19_NoFabricatedItems ==
    /\ ItemsOf(allCategories) \subseteq 0..(nVideos - 1)
    /\ \A c \in DOMAIN bresult : ItemsOf(bresult[c]) \subseteq 0..(nVideos - 1)
    /\ bpc = "idle" =>
          \A c \in ChunkIds : \A parsed \in ChunkAnswers(nVideos, titling, c) :
              BatchCategories(EmptyCats, parsed, nVideos, titling)
                = BatchCategories(EmptyCats,
                                  WithoutUnknown(parsed,
                                                 InputTitles(nVideos, titling)),
                                  nVideos, titling)

\* the loop ended with categories after one chunk was answered with a title
\* no video carries, which left its category empty, and another with a
\* title of the job
C19_Witness ==
    /\ LoopEndedWithCategories
    /\ \E c \in MergedChunks : \E d \in MergedChunks :
          /\ chunk[c].how = "parsed"
          /\ DOMAIN bresult[c] = {"B"} /\ bresult[c]["B"] = <<>>
          /\ chunk[d].how = "parsed"
          /\ DOMAIN bresult[d] = {"A"} /\ bresult[d]["A"] # <<>>
    /\ allCategories["B"] = <<>>
    /\ ItemsOf(allCategories) # {}


\* ---------------------------------------------------------------------
\* chunk call c settled without a category: it rejected, or it resolved
\* with an empty object
SettledWithoutCategories(c) ==
    \/ chunk[c].state = "rejected"
    \/ chunk[c].state = "fulfilled" /\ DOMAIN bresult[c] = {}

\* categorizeVideos has returned after it asked Gemini
JobOver == bpc \in {"done", "failed"} /\ bdisplayed # "cached"

EveryChunkFailed ==
    /\ DOMAIN chunk # {}
    /\ \A c \in DOMAIN chunk : SettledWithoutCategories(c)

\* C20: when every chunk call of a job settled without a category, the job
\* fails with the error 'No categories were generated.', cacheData is not
\* called and no categories are displayed.
C20_TotalFailureReported ==
    (JobOver /\ EveryChunkFailed) =>
        /\ bpc = "failed"
        /\ berror = "nocategories"
        /\ cdState = "idle"
        /\ bdisplayed = None

\* the part of C20 that does not name the error
TotalFailureFailsJob ==
    (JobOver /\ EveryChunkFailed) =>
        /\ bpc = "failed"
        /\ cdState = "idle"
        /\ bdisplayed = None

\* every chunk call resolved with an empty object and the job failed with
\* 'No categories were generated.'
TotalFailureByMalformedAnswers ==
    /\ JobOver /\ EveryChunkFailed
    /\ \A c \in DOMAIN chunk : chunk[c].how = "malformed"
    /\ Cardinality(DOMAIN chunk) > MAX_PARALLEL
    /\ berror = "nocategories"


\* ---------------------------------------------------------------------
\* cacheData has just caught the error of an attempt
WriteCaught == cdAttempts' = cdAttempts + 1

\* updateOne is being run for put request p
UpdateRunning(p) == ppc[p] \in {"update", "insert"}

\* C21: cacheData issues at most 3 POSTs and the route at most 3 updateOne
\* per request; after a successful attempt nothing more is attempted; and
\* when the third attempt fails, its error is the one surfaced: cacheData
\* throws the error of attempt 3 (for a response, with the status of that
\* response), and the route answers 500 with the error of its third
\* updateOne.
C21_RetryBudget ==
    /\ [](/\ cdAttempts <= CacheDataMaxAttempts
          /\ cdState \in {"posting", "backoff"}
                => cdAttempts < CacheDataMaxAttempts
          /\ cdState = "failed"
                => /\ cdAttempts = CacheDataMaxAttempts
                   /\ cdLastError.attempt = CacheDataMaxAttempts
          /\ cdState = "ok" => \A p \in Puts : ppc[p] = "idle"
          /\ \A p \in Puts :
                /\ pattempts[p] < PutMaxAttempts
                /\ ppc[p] = "sleep" => pattempts[p] >= 1)
    /\ [][/\ cdState = "ok" => UNCHANGED <<cdVars, putVars, store>>
          /\ (WriteCaught /\ cresp # NoResp)
                => /\ cdLastError'.status = cresp.status
                   /\ cdLastError'.attempt = cdAttempts'
          /\ \A p \in Puts :
                /\ PutStored(p) => ~UpdateRunning(p)'
                /\ (UpdateRunning(p) /\ ppc'[p] = "idle"
                      /\ cresp'.status = 500)
                     => /\ pattempts[p] = PutMaxAttempts - 1
                        /\ cresp'.details.attempt = PutMaxAttempts]_vars

\* cacheData gave up after its third POST was answered 500, which the route
\* sent after its third updateOne failed
C21_Witness ==
    /\ cdState = "failed"
    /\ cdAttempts = CacheDataMaxAttempts
    /\ cdLastError = [attempt |-> 3, kind |-> "http", status |-> 500]

\* C22: a POST answered 400 or 413 is the only POST of its cacheData call,
\* which fails with that answer.
C22_ValidationNotRetried ==
    cdLastError.status \in {400, 413} =>
        /\ cdState = "failed"
        /\ cdAttempts = 1


\* ---------------------------------------------------------------------
\* the loader has just got the return value of getCachedData
LookupReturned == lpc = "lookup" /\ lpc' # "lookup"

\* C23: whatever fails in the cache lookup (an error status other than
\* 404, a rejected fetch, a body that is not JSON, a response without
\* data), getCachedData returns null without throwing and the loader goes
\* on to its upstream call (for getChannelIdByHandle the handle
\* resolution); no loader ever fails because of the lookup.
C23_FailedReadIsMiss ==
    /\ [](/\ lerror # "lookup"
          /\ \A answer \in LookupFailures : GetCachedData(answer) = Null)
    /\ [][(LookupReturned /\ llookup' \in LookupFailures)
            => /\ lpc' \in {"fetch", "resolve"}
               /\ lerror' = lerror
               /\ ~ldelivered']_vars

\* the lookup was answered 500 and the loader delivered what the upstream
\* gave it
C23_Witness ==
    /\ llookup = "500"
    /\ lop = "loadPlaylistData"
    /\ lpc = "done"
    /\ ldelivered
    /\ lerror = None


\* ---------------------------------------------------------------------
\* C24: a loader that waits for the YouTube API stops waiting, whether or
\* not the API answers.
C24_UpstreamCallEnds == (lpc = "fetch") ~> (lpc # "fetch")

\* the handle resolution, whose upstream request the server times out
ResolveCallEnds == (lpc = "resolve") ~> (lpc # "resolve")


\* ---------------------------------------------------------------------
\* a document without expiresAt
Undated(doc) == doc # NoDoc /\ "expiresAt" \notin DOMAIN doc

\* the documents without expiresAt stored under a key
UndatedWithKey(docs, key) == {i \in WithKey(docs, key) : Undated(docs[i])}

\* findOne of the read in progress has just run
FindRan == gpc = "find" /\ gpc' # "find" /\ cresp'.status # 500

\* C25: a read of a key that has a document without expiresAt answers 200
\* with a document of that key (the undated one when it is the first of
\* the key), and a document without expiresAt stays in its collection as
\* it is over every step, except a put stored under its key: neither the
\* deleteOne of a read nor the deleteMany of the sweep removes it.
C25_UndatedNeverExpires ==
    [][/\ (FindRan /\ UndatedWithKey(store[greq.collection], greq.key) # {})
            => LET docs == store[greq.collection]
                   first == docs[FirstOf(WithKey(docs, greq.key))]
               IN /\ cresp'.status = 200
                  /\ \E i \in WithKey(docs, greq.key) :
                        Restrict(cresp'.data, PayloadFields)
                          = Restrict(docs[i], PayloadFields)
                  /\ Undated(first)
                       => /\ Restrict(cresp'.data, PayloadFields)
                               = Restrict(first, PayloadFields)
                          /\ greq.route = "GET /cache" => cresp'.data = first
       /\ \A c \in Collections : \A i \in DOMAIN store[c] :
             Undated(store[c][i])
               => \/ \E j \in DOMAIN store'[c] : store'[c][j] = store[c][i]
                  \/ \E p \in Puts : /\ PutStored(p)
                                      /\ preq[p].collection = c
                                      /\ preq[p].key = store[c][i].key]_vars

\* a day after the start the sweep has answered and the document without
\* expiresAt is still stored
C25_Witness ==
    /\ now >= TickHours
    /\ cresp.route = "DELETE /cache/expired"
    /\ cresp.status = 200
    /\ \E i \in DOMAIN store["videos"] : Undated(store["videos"][i])


\* ---------------------------------------------------------------------
\* the entries of the pair (collection, key), in stored order
EntriesOf(st, c, k) == SelectSeq(st[c], LAMBDA doc : doc.key = k)

\* the step stores a put under the pair, or runs the deleteOne of a read of
\* the pair
ActsOn(c, k) ==
    \/ \E p \in Puts : /\ PutStored(p)
                        /\ preq[p].collection = c
                        /\ preq[p].key = k
    \/ /\ gpc = "cleanup" /\ gpc' = "idle"
       /\ greq.collection = c
       /\ greq.key = k

\* the step runs deleteMany of the sweep
SweepRuns == spc = "running" /\ spending' # spending

\* C26: the entries of a pair (collection, key) change only in a step that
\* stores a put under that pair or runs the deleteOne of a read of that
\* pair (or in the sweep, which is about no pair), and what a read answers
\* is what findOne gives on the entries of its own pair alone.
C26_PairsIndependent ==
    [][/\ \A c \in Collections : \A k \in Keys \cup {OtherKey} :
             EntriesOf(store', c, k) # EntriesOf(store, c, k)
                => ActsOn(c, k) \/ SweepRuns
       /\ FindRan =>
             LET own == FindOne(EntriesOf(store, greq.collection, greq.key),
                                greq.key, gnow)
             IN IF own = NoDoc THEN cresp' = cresp /\ gpc' = "cleanup"
                ELSE /\ cresp'.status = 200
                     /\ cresp'.data = DataToReturn(greq.route, own)]_vars

\* a read of ("videos", 1) found its entry expired and deleted it, while
\* the expired entry of the other key, stored before it, and the entry of
\* key 1 in "channels" are still there
C26_Witness ==
    /\ cresp.status = 404
    /\ cresp.expired
    /\ EntriesOf(store, "videos", 1) = <<>>
    /\ EntriesOf(store, "videos", OtherKey) # <<>>
    /\ MatchesExpired(store["videos"][1], now)
    /\ EntriesOf(store, "channels", 1) # <<>>

\* ---------------------------------------------------------------------
\* C27: GET /cache and POST /cache/get answer alike: whichever of the two
\* routes a read came by, a missing key or an unknown collection is
\* answered 400, and a found entry is answered 200 with the data the other
\* route would have sent for it.
C27_ReadRoutesAgree ==
    [][/\ (gpc = "idle" /\ ops' = ops + 1 /\ gpc' = "idle" /\ cresp'.route \in GetRoutes)
            => cresp'.status = 400
       /\ (FindRan /\ cresp'.status = 200) =>
             LET doc == FindOne(store[greq.collection], greq.key, gnow)
             IN \A route \in GetRoutes : cresp'.data = DataToReturn(route, doc)]_vars

\* ---------------------------------------------------------------------
\* a DELETE /cache/expired request arrives
SweepArrives ==
    /\ spc = "idle"
    /\ ops' = ops + 1
    /\ UNCHANGED <<ppc, gpc>>
    /\ spc' = "running" \/ cresp'.route = "DELETE /cache/expired"

\* the entries of docs that are not expired at time t, in stored order
LiveAt(docs, t) == SelectSeq(docs, LAMBDA doc : ~MatchesExpired(doc, t))

\* C28: a DELETE /cache/expired request is answered 200 with one deleted
\* count per collection; every collection holding an entry whose expiresAt
\* is before the time of the request gets its deleteMany, which removes
\* exactly those entries, counts them, and leaves the live entries and the
\* other collections as they were.
C28_SweepRemovesExpired ==
    [][/\ SweepArrives =>
             /\ store' = store
             /\ IF HoldingExpired(store, now) = {}
                THEN /\ cresp'.status = 200
                     /\ cresp'.results = [c \in Collections |-> 0]
                ELSE /\ spc' = "running"
                     /\ snow' = now
                     /\ spending' = HoldingExpired(store, now)
       /\ \A c \in Collections :
             (spc = "running" /\ c \in spending /\ c \notin spending') =>
                /\ store'[c] = LiveAt(store[c], snow)
                /\ \A d \in Collections \ {c} : store'[d] = store[d]
                /\ LET counts == IF spc' = "idle" THEN cresp'.results ELSE sdeleted'
                   IN /\ counts[c] = Len(store[c]) - Len(store'[c])
                      /\ \A d \in Collections \ {c} : counts[d] = sdeleted[d]
                /\ spc' = "idle" <=> spending' = {}
                /\ spc' = "idle" => cresp'.status = 200]_vars

\* a sweep was answered 500 while an expired entry is stored
SweepFailedOverExpired ==
    /\ cresp.route = "DELETE /cache/expired"
    /\ cresp.status = 500
    /\ HoldingExpired(store, now) # {}

\* ---------------------------------------------------------------------
\* C29: with at least one key configured, currentKeyIndex is an integer
\* from 0 to the number of configured keys minus one, whatever rotate,
\* config and key-usage requests have been served; the index GET /key-usage
\* reports and the key GET /config puts first are those of that position.
C29_IndexInRange ==
    numKeys > 0 =>
        /\ currentKeyIndex \in 0..(numKeys - 1)
        /\ (qresp.route = "GET /key-usage" /\ qresp.status = 200)
              => qresp.currentKeyIndex \in 0..(numKeys - 1)
        /\ (qresp.route = "GET /config" /\ qresp.status = 200)
              => Head(qresp.youtubeApiKeys) \in Range(YoutubeApiKeys(numKeys))

\* three rotations over three keys have brought the index back to 0, and
\* GET /key-usage has been answered since
C29_Witness ==
    /\ numKeys = 3
    /\ rcalls >= 3
    /\ currentKeyIndex = 0
    /\ \A r \in Reqs : rpc[r] \in {"idle", "done"}
    /\ qresp.route = "GET /key-usage"
    /\ qresp.currentKeyIndex = 0

\* ---------------------------------------------------------------------
\* the upstream call of the loader ends with a quota error
QuotaFailure == lpc = "fetch" /\ lkeyUsed \in exhausted /\ lpc' # "fetch"

\* the loader is invoked again
Reattempt == lattempts >= 1 /\ lattempts' # lattempts

\* C30: a quota error of the upstream call makes the loader send
\* POST /rotate-key; it is invoked again only when that request has been
\* answered with keyRotated, the client's key list then being the list of
\* the answer; and every upstream call after the first attempt is made
\* with the head of that list.
C30_RotateBeforeRetry ==
    /\ [][/\ QuotaFailure =>
                /\ lpc' = "rotating"
                /\ rcalls' = rcalls + 1
                /\ rpc'[ClientReq] = "queued"
                /\ lattempts' = lattempts
          /\ Reattempt =>
                /\ lpc = "rotating"
                /\ rpc[ClientReq] = "done"
                /\ rresp[ClientReq].status = 200
                /\ rresp[ClientReq].keyRotated
                /\ lattempts' = lattempts + 1
                /\ currentApiKeys' = rresp[ClientReq].youtubeApiKeys
                /\ UNCHANGED rotVars
          /\ lpc = "rotating" => (lkeyUsed' = lkeyUsed \/ Reattempt)]_vars
    /\ []((lpc = "fetch" /\ lattempts >= 2) =>
            /\ rpc[ClientReq] = "done"
            /\ currentApiKeys = rresp[ClientReq].youtubeApiKeys
            /\ lkeyUsed = Head(currentApiKeys)
            /\ lkeyUsed = KeyAt(numKeys, currentKeyIndex)
            /\ rcalls = lattempts - 1)

\* loadPlaylistData, on its second invocation after a quota error with key
\* 1 and one rotation, makes the upstream call with key 2
C30_Witness ==
    /\ lop = "loadPlaylistData"
    /\ lpc = "fetch"
    /\ lattempts = 2
    /\ rcalls = 1
    /\ 1 \in exhausted
    /\ lkeyUsed = 2
    /\ Head(currentApiKeys) = 2

\* ---------------------------------------------------------------------
\* the wave a chunk call belongs to: MAX_PARALLEL calls per wave
WaveOf(c) == c \div MAX_PARALLEL

Settled(c) == chunk[c].state \in {"fulfilled", "rejected"}

\* C31: a chunk call of a later wave exists only when every chunk call of
\* the waves before it has settled; none of them was rejected, since a
\* rejection ends the loop; and the calls being awaited are of one wave.
C31_WaveBarrier ==
    /\ \A c \in DOMAIN chunk : \A d \in DOMAIN chunk :
          (WaveOf(c) < WaveOf(d) /\ chunk[d].state # "none")
             => Settled(c) /\ chunk[c].state # "rejected"
    /\ \A i \in DOMAIN batchPromises : \A j \in DOMAIN batchPromises :
          WaveOf(batchPromises[i]) = WaveOf(batchPromises[j])

\* the calls of the first wave have settled, one of them by returning {}
\* after a parse error, and the call of the second wave is in flight
C31_Witness ==
    /\ TotalBatches(nVideos) > MAX_PARALLEL
    /\ \A c \in 0..(MAX_PARALLEL - 1) : Settled(c)
    /\ \E c \in 0..(MAX_PARALLEL - 1) : chunk[c].how = "malformed"
    /\ chunk[MAX_PARALLEL].state = "inflight"

\* ---------------------------------------------------------------------
\* the chunk call c fulfils as the last of its wave: Promise.all resolves
\* and the results of the wave are merged
WaveMerges(c) ==
    /\ bpc = "await"
    /\ chunk[c].state = "inflight"
    /\ chunk'[c].state = "fulfilled"
    /\ \A j \in DOMAIN batchPromises : chunk'[batchPromises[j]].state = "fulfilled"

\* the items the chunk calls of order returned under the label k, one
\* list after the other
RECURSIVE ConcatIn(_, _, _)
ConcatIn(order, k, results) ==
    IF order = <<>> THEN <<>>
    ELSE (IF k \in DOMAIN results[Head(order)] THEN results[Head(order)][k]
          ELSE <<>>)
         \o ConcatIn(Tail(order), k, results)

\* allCategories after the merge holds the labels it had and those the
\* chunk calls of order returned, and under each label its former list
\* followed by the lists of those calls, taken in that order
MergedIn(order) ==
    /\ DOMAIN allCategories' =
          (DOMAIN allCategories)
             \cup UNION {DOMAIN bresult'[order[j]] : j \in DOMAIN order}
    /\ \A k \in DOMAIN allCategories' :
          allCategories'[k] =
             (IF k \in DOMAIN allCategories THEN allCategories[k] ELSE <<>>)
                \o ConcatIn(order, k, bresult')

\* C32 as stated: the results of a wave are combined by label, the list of
\* a label being the concatenation of the lists the chunk calls returned
\* for it in the order in which the calls completed.
C32_ConcatInCompletionOrder ==
    [][\A c \in DOMAIN chunk :
          WaveMerges(c) => MergedIn(Append(bsettled, c))]_vars

\* C32, amended: the results of a wave are combined by label, the list of
\* a label being the concatenation of the lists the chunk calls returned
\* for it in the order of the chunks in the input, whatever the order in
\* which the calls completed.
C32_ConcatInChunkOrder ==
    [][\A c \in DOMAIN chunk :
          WaveMerges(c) => MergedIn(batchPromises)]_vars

\* a wave of two calls was merged whose second call completed first, both
\* having returned an item under "A": the item of the first chunk precedes
\* that of the second
C32_Witness ==
    /\ TotalBatches(nVideos) = 2
    /\ bpc \in {"store", "done"}
    /\ bsettled = <<1, 0>>
    /\ bresult[0] = [A |-> <<0>>]
    /\ bresult[1] = [A |-> <<BATCH_SIZE>>]
    /\ allCategories = [A |-> <<0, BATCH_SIZE>>]

\* ---------------------------------------------------------------------
\* the chunks whose results have been merged, in input order: those before
\* the wave being awaited, and all of them when the loop has ended
MergedSoFar ==
    LET n == IF LoopEnded THEN TotalBatches(nVideos)
             ELSE IF batchPromises # <<>> THEN batchPromises[1]
             ELSE 0
    IN [i \in 1..n |-> i - 1]

\* where the label k first occurs in the answers, counted chunk by chunk in
\* input order and within a chunk in the order of its category objects
FirstSeen(k) ==
    LET at == {<<c, i>> \in (DOMAIN bkeys) \X (1..Cardinality(Cats)) :
                  i \in DOMAIN bkeys[c] /\ bkeys[c][i] = k}
    IN CHOOSE p \in at : \A q \in at :
          p[1] < q[1] \/ (p[1] = q[1] /\ p[2] <= q[2])

\* C33: the merged result depends on the videos and on what each chunk call
\* returned only, not on the order in which the calls completed: the
\* labels are those the merged chunks returned, in the order of their first
\* occurrence in the answers taken in input order, and the list of a label
\* is the concatenation of its lists over the merged chunks in input order.
C33_MergeDeterministic ==
    LET merged == MergedSoFar
        labels == UNION {DOMAIN bresult[merged[j]] : j \in DOMAIN merged}
    IN bdisplayed # "cached" =>
         /\ DOMAIN allCategories = labels
         /\ \A k \in labels : allCategories[k] = ConcatIn(merged, k, bresult)
         /\ Elements(allKeys) = labels
         /\ Len(allKeys) = Cardinality(labels)
         /\ \A i \in DOMAIN allKeys : \A j \in DOMAIN allKeys :
               i < j => FirstSeen(allKeys[i]) # FirstSeen(allKeys[j])
                        /\ \/ FirstSeen(allKeys[i])[1] < FirstSeen(allKeys[j])[1]
                           \/ /\ FirstSeen(allKeys[i])[1] = FirstSeen(allKeys[j])[1]
                              /\ FirstSeen(allKeys[i])[2] < FirstSeen(allKeys[j])[2]

\* the loop ended on a wave of two calls of which the second completed
\* first; the first chunk returned "B" then "A", the second "A": the labels
\* are "B", "A" and the item of the first chunk comes first under "A"
C33_Witness ==
    /\ LoopEnded
    /\ bsettled = <<1, 0>>
    /\ bkeys[0] = <<"B", "A">>
    /\ bkeys[1] = <<"A">>
    /\ allKeys = <<"B", "A">>
    /\ allCategories["A"] = <<0, BATCH_SIZE>>

\* ---------------------------------------------------------------------
\* the wait the schedule baseDelayMs * 2^attempt gives after the failed
\* attempt number attempt, counted from 0
BaseDelayMs == 1000
Scheduled(attempt) == BaseDelayMs * (2 ^ attempt)

\* C34: while cacheData or POST /cache waits between two attempts, the
\* timer it waits for runs baseDelayMs * 2^attempt ms, attempt being the
\* number, counted from 0, of the attempt that has just failed: 1000 ms
\* after the first failure, 2000 ms after the second.
C34_BackoffSchedule ==
    /\ cdState = "backoff" => cdDelay = Scheduled(cdAttempts - 1)
    /\ \A p \in Puts : ppc[p] = "sleep" => pdelay[p] = Scheduled(pattempts[p] - 1)

\* cacheData waits 4000 ms after its second failed attempt
ClientWaitsDouble == cdState = "backoff" /\ cdAttempts = 2 /\ cdDelay = 4000

\* POST /cache waits 1000 ms after its second failed attempt
ServerWaitsFlat == ppc[1] = "sleep" /\ pattempts[1] = 2 /\ pdelay[1] = 1000

\* ---------------------------------------------------------------------
\* the invocations of the loader that did not follow a rotation: the first
\* one and the local retries
LocalAttempts == lattempts - rcalls

\* C35: a loader rejects with a non-quota failure of its upstream call only
\* after it has made the call again at least once without a rotation in
\* between.
C35_UpstreamFailureRetried == lerror = "upstream" => LocalAttempts >= 2

\* loadPlaylistData rejected with the upstream error after a single
\* invocation and no rotation
SurfacedAtOnce ==
    /\ lop = "loadPlaylistData"
    /\ lpc = "failed"
    /\ lerror = "upstream"
    /\ lattempts = 1
    /\ rcalls = 0

\* C36: the cleanup delete of a read removes at most one entry, of the key
\* read and expired before the time the read took ahead of its lookup; every
\* entry of the key that expires at or after that time (an entry a put
\* refreshed since the lookup) and every entry without expiry is still
\* stored, and no other collection changes.
CleanupRuns == gpc = "cleanup" /\ gpc' = "idle" /\ cresp'.status = 404

Refreshed(doc, key, t) ==
    /\ doc.key = key
    /\ "expiresAt" \in DOMAIN doc => doc.expiresAt >= t

C36_EvictionSparesLive ==
    [][CleanupRuns =>
         LET docs == store[greq.collection]
             after == store'[greq.collection]
         IN /\ \/ after = docs
               \/ \E i \in DOMAIN docs :
                     /\ after = RemoveAt(docs, i)
                     /\ docs[i].key = greq.key
                     /\ MatchesExpired(docs[i], gnow)
                     /\ ~MatchesLive(docs[i], now)
            /\ \A i \in DOMAIN docs :
                  Refreshed(docs[i], greq.key, gnow) =>
                      \E j \in DOMAIN after : after[j] = docs[i]
            /\ \A c \in Collections \ {greq.collection} : store'[c] = store[c]
    ]_vars

\* a read found the entry of ("videos", 1) expired, a put refreshed it
\* before the cleanup delete ran, and the refreshed entry is stored after
\* the 404
C36_Witness ==
    /\ cresp # NoResp
    /\ cresp.route \in GetRoutes
    /\ cresp.status = 404
    /\ cresp.expired
    /\ \E i \in DOMAIN store["videos"] :
          /\ store["videos"][i].key = 1
          /\ "expiresAt" \in DOMAIN store["videos"][i]
          /\ store["videos"][i].expiresAt > now

\* C37: every call of rotateYoutubeKey returns or throws, and the lock is
\* false whenever no call is between taking the lock and its finally
\* block, also after a call that threw on an empty pool: a call that waits
\* for the lock gets it.
RotInside == {r \in Reqs : rpc[r] \in {"cs", "rotated", "threw"}}

C37_RotateReturnsAndReleases ==
    /\ [](RotInside = {} => ~keyRotationLock)
    /\ \A r \in Reqs : (rpc[r] = "queued") ~> (rpc[r] = "done")

\* a call waited for the lock while another call held it, on a server
\* without keys, and has got its 500 with the lock released
C37_Witness ==
    /\ numKeys = 0
    /\ \E r \in Reqs :
          /\ rpc[r] = "done"
          /\ rwaited[r]
          /\ rresp[r].status = 500
    /\ RotInside = {}
    /\ ~keyRotationLock

\* C38: GET /resolve-handle asks res for one response per request: never
\* for a second one, and for one by the time the request is over.
C38_ExactlyOneResponse ==
    \A r \in Reqs :
        /\ Len(hsent[r]) <= 1
        /\ hpc[r] = "closed" => Len(hsent[r]) = 1

\* the timeout came before the response of the page: 504 was sent, and the
\* 'error' the destroyed request emitted asked for 500 on top
SecondResponseAfterTimeout ==
    \E r \in Reqs : hpc[r] = "closed" /\ hsent[r] = <<504, 500>>

\* C39: at most one connection attempt is in progress; isConnecting is true
\* exactly while one is, and connectionPromise is then its promise; a call
\* of connectToDatabase made while an attempt is in progress starts no
\* attempt and awaits the promise of that one; an attempt that fails leaves
\* client and db reset and isConnecting false, one that succeeds leaves
\* isConnecting false.
CallsConnect(r) == epc[r] # "awaiting" /\ epc'[r] = "awaiting"

Settles(i, how) == i \in InProgress /\ connAttempts'[i] = how

C39_SingleFlight ==
    /\ [](/\ Cardinality(InProgress) <= 1
          /\ isConnecting <=> InProgress # {}
          /\ isConnecting => connectionPromise \in InProgress)
    /\ [][/\ \A r \in Reqs :
                 CallsConnect(r) /\ InProgress # {} =>
                     /\ connAttempts' = connAttempts
                     /\ ewait'[r] \in InProgress
            /\ \A i \in DOMAIN connAttempts :
                 /\ Settles(i, "rejected") =>
                        ~client' /\ ~dbReady' /\ ~isConnecting'
                 /\ Settles(i, "resolved") => ~isConnecting'
       ]_vars

\* an attempt failed, a later one succeeded, and two requests that awaited
\* the promise of the later one have gone on
C39_Witness ==
    \E i, j \in DOMAIN connAttempts :
        /\ i < j
        /\ connAttempts[i] = "rejected"
        /\ connAttempts[j] = "resolved"
        /\ \E r, q \in Reqs :
              /\ r # q
              /\ epc[r] = "passed" /\ ewait[r] = j
              /\ epc[q] = "passed" /\ ewait[q] = j
        /\ ~isConnecting
        /\ client
        /\ dbReady

\* C40: a label a chunk call returned is a key of its batchCategories and,
\* once merged, of allCategories, also when none of its titles matched a
\* video; the job fails the no-categories check only when no merged chunk
\* returned a label, and a job whose labels all have empty lists is shown
\* once its cache write succeeded.
AllListsEmpty(cats) == \A k \in DOMAIN cats : cats[k] = <<>>

C40_EmptyCategoryCounts ==
    /\ \A c \in DOMAIN chunk :
          chunk[c].state = "fulfilled" => DOMAIN bresult[c] = Elements(bkeys[c])
    /\ \A j \in DOMAIN MergedSoFar :
          Elements(bkeys[MergedSoFar[j]]) \subseteq DOMAIN allCategories
    /\ berror = "nocategories" =>
          \A c \in DOMAIN chunk : bkeys[c] = <<>>
    /\ (LoopEnded /\ allKeys # <<>> /\ AllListsEmpty(allCategories)) =>
          /\ bpc \in {"store", "done"} \/ berror = "cache"
          /\ cdState = "ok" /\ bpc \notin {"store", "failed"} => bdisplayed = "fresh"

\* every chunk call returned the label "B" with a title no video carries:
\* the result, "B" with no item, was cached and shown
C40_Witness ==
    /\ bpc = "done"
    /\ bdisplayed = "fresh"
    /\ cdState = "ok"
    /\ \A c \in DOMAIN chunk : chunk[c].how = "parsed" /\ bkeys[c] = <<"B">>
    /\ allKeys = <<"B">>
    /\ DOMAIN allCategories = {"B"}
    /\ allCategories["B"] = <<>>
====
